---------------------------- MODULE Spec2Model ----------------------------
(***************************************************************************)
(* Model of hpct-interview: the Settings Store (lib.py, DottedDictWrapper), *)
(* the Item Model (interview.py, Item) and the Traversal Engine            *)
(* (interview.py, Interview.next).                                         *)
(*                                                                         *)
(* Python values are tagged records:                                       *)
(*   None  [t |-> "none"]          bool [t |-> "bool", b |-> TRUE]          *)
(*   int   [t |-> "int", n |-> 3]  str  [t |-> "str", s |-> <<"a","b">>]    *)
(*   list  [t |-> "list", l |-> <<v1, v2>>]                                 *)
(*   dict  [t |-> "dict", d |-> [segment |-> value]]                        *)
(*   float [t |-> "float", x |-> 25]  (tenths: 2.5)                         *)
(* A text (the characters of a Python str) is a sequence of one-character  *)
(* strings, so that split, join, "in" and int() are computed character by  *)
(* character.  NoValue is the class interview.py uses for "absent".        *)
(***************************************************************************)
EXTENDS Integers, Sequences, FiniteSets, TLC

VARIABLES config, settings, pc, item, visited, scans, passes, last, prev, fresh, answers

vars == <<config, settings, pc, item, visited, scans, passes, last, prev, fresh, answers>>

(* ------------------------------ values -------------------------------- *)

NoValue == [t |-> "NoValue"]

None == [t |-> "none"]

VBool(b) == [t |-> "bool", b |-> b]

VInt(n) == [t |-> "int", n |-> n]

(* a float, held in tenths: 2.5 is VFloat(25) *)
VFloat(x) == [t |-> "float", x |-> x]

VStr(s) == [t |-> "str", s |-> s]

VList(l) == [t |-> "list", l |-> l]

VDict(d) == [t |-> "dict", d |-> d]

EmptyDict == VDict(<<>>)

Digits == <<"0", "1", "2", "3", "4", "5", "6", "7", "8", "9">>

IsDigit(c) == \E i \in 1..10 : Digits[i] = c

DigitVal(c) == (CHOOSE i \in 1..10 : Digits[i] = c) - 1

IsSpace(c) == c = " "

Tail2(s, n) == SubSeq(s, n, Len(s))

(* str.split(sep) for a one-character separator: empty fields are kept. *)
RECURSIVE Split(_, _)
Split(s, sep) ==
  IF \A i \in 1..Len(s) : s[i] # sep THEN <<s>>
  ELSE LET p == CHOOSE i \in 1..Len(s) : s[i] = sep /\ \A j \in 1..(i-1) : s[j] # sep
       IN <<SubSeq(s, 1, p - 1)>> \o Split(Tail2(s, p + 1), sep)

(* str.split(): fields separated by runs of whitespace, no empty field. *)
RECURSIVE SplitWs(_)
SplitWs(s) ==
  IF s = <<>> THEN <<>>
  ELSE IF IsSpace(s[1]) THEN SplitWs(Tail(s))
  ELSE LET stops == {i \in 1..Len(s) : IsSpace(s[i])}
           p == IF stops = {} THEN Len(s) + 1
                ELSE CHOOSE i \in stops : \A j \in stops : i <= j
       IN <<SubSeq(s, 1, p - 1)>> \o SplitWs(Tail2(s, p))

(* str.strip() *)
RECURSIVE Strip(_)
Strip(s) ==
  IF s = <<>> THEN s
  ELSE IF IsSpace(s[1]) THEN Strip(Tail(s))
  ELSE IF IsSpace(s[Len(s)]) THEN Strip(SubSeq(s, 1, Len(s) - 1))
  ELSE s

(* sep.join(parts) *)
RECURSIVE Join(_, _)
Join(parts, sep) ==
  IF parts = <<>> THEN <<>>
  ELSE IF Len(parts) = 1 THEN parts[1]
  ELSE parts[1] \o <<sep>> \o Join(Tail(parts), sep)

(* "x" in s for a one-character x *)
HasChar(s, c) == \E i \in 1..Len(s) : s[i] = c

(* sub in s: substring test of str.__contains__ *)
IsSubstring(sub, s) ==
  \E i \in 1..(Len(s) - Len(sub) + 1) : SubSeq(s, i, i + Len(sub) - 1) = sub

(* str(n) / f"{n}" of an int *)
RECURSIVE NatToText(_)
NatToText(n) ==
  IF n < 10 THEN <<Digits[n + 1]>>
  ELSE NatToText(n \div 10) \o <<Digits[(n % 10) + 1]>>

IntToText(n) == IF n < 0 THEN <<"-">> \o NatToText(0 - n) ELSE NatToText(n)

RECURSIVE DigitsToNat(_)
DigitsToNat(s) ==
  IF s = <<>> THEN 0
  ELSE 10 * DigitsToNat(SubSeq(s, 1, Len(s) - 1)) + DigitVal(s[Len(s)])

AllDigits(s) == s # <<>> /\ \A i \in 1..Len(s) : IsDigit(s[i])

ParseFail == [ok |-> FALSE, n |-> 0]

(* the digits of an int literal, after its sign *)
ParseDigits(neg, body) ==
  IF AllDigits(body)
  THEN [ok |-> TRUE, n |-> IF neg THEN 0 - DigitsToNat(body) ELSE DigitsToNat(body)]
  ELSE ParseFail

ParseSigned(b) ==
  IF b # <<>> /\ b[1] \in {"-", "+"} THEN ParseDigits(b[1] = "-", Tail(b))
  ELSE ParseDigits(FALSE, b)

(* int(str): surrounding whitespace, an optional sign, one or more digits *)
ParseInt(s) == ParseSigned(Strip(s))

(* a float in tenths, from its whole part and its one fractional digit *)
Tenths(whole, neg, frac) ==
  [ok |-> whole.ok, x |-> IF neg THEN 10 * whole.n - frac ELSE 10 * whole.n + frac]

ParseFloatParts(b, parts) ==
  IF Len(parts) = 1 THEN Tenths(ParseSigned(b), FALSE, 0)
  ELSE IF /\ Len(parts) = 2 /\ Len(parts[2]) = 1 /\ IsDigit(parts[2][1])
          /\ parts[1] # <<>> /\ ~IsSpace(parts[1][Len(parts[1])])
  THEN Tenths(ParseSigned(parts[1]), b[1] = "-", DigitVal(parts[2][1]))
  ELSE [ok |-> FALSE, x |-> 0]

ParseFloatStripped(b) == ParseFloatParts(b, Split(b, "."))

(* float(str), for the literals [sign]digits[.digit]; the result in tenths *)
ParseFloat(s) == ParseFloatStripped(Strip(s))

(* int(v): TypeError for None, list and the store wrapper, ValueError for a *)
(* text that is no integer literal; a float is truncated towards zero       *)
PyInt(v) ==
  CASE v.t = "int" -> [ok |-> TRUE, n |-> v.n]
    [] v.t = "bool" -> [ok |-> TRUE, n |-> IF v.b THEN 1 ELSE 0]
    [] v.t = "float" -> [ok |-> TRUE,
                         n |-> IF v.x < 0 THEN 0 - ((0 - v.x) \div 10) ELSE v.x \div 10]
    [] v.t = "str" -> ParseInt(v.s)
    [] OTHER -> ParseFail

(* float(v), in tenths *)
PyFloat(v) ==
  CASE v.t = "int" -> [ok |-> TRUE, x |-> 10 * v.n]
    [] v.t = "bool" -> [ok |-> TRUE, x |-> IF v.b THEN 10 ELSE 0]
    [] v.t = "float" -> [ok |-> TRUE, x |-> v.x]
    [] v.t = "str" -> ParseFloat(v.s)
    [] OTHER -> [ok |-> FALSE, x |-> 0]

(* bool(v): truth value; the store wrapper and the class NoValue define no *)
(* __bool__ or __len__ and are true                                        *)
PyBool(v) ==
  CASE v.t = "none" -> FALSE
    [] v.t = "bool" -> v.b
    [] v.t = "int" -> v.n # 0
    [] v.t = "float" -> v.x # 0
    [] v.t = "str" -> v.s # <<>>
    [] v.t = "list" -> v.l # <<>>
    [] OTHER -> TRUE

IsNumber(v) == v.t \in {"int", "bool", "float"}

(* the number a bool, int or float is, in tenths *)
NumTenths(v) ==
  CASE v.t = "int" -> 10 * v.n
    [] v.t = "bool" -> IF v.b THEN 10 ELSE 0
    [] OTHER -> v.x

(* a == b: bool, int and float compare by number, the rest by type and content *)
PyEq(a, b) ==
  IF IsNumber(a) /\ IsNumber(b) THEN NumTenths(a) = NumTenths(b) ELSE a = b

(* v in lst, for a Python list *)
PyInList(v, lst) == \E i \in 1..Len(lst) : PyEq(v, lst[i])

(* --------------------- Settings Store (lib.py) ------------------------ *)

(* The separator DottedDictWrapper.__init__ is given by default. *)
Sep == "."

IsDict(v) == v.t = "dict"

(* k in v, for a segment k and any Python object v: "true", "false", or     *)
(* "raise" where the object supports no membership test                     *)
InTest(k, v) ==
  CASE v.t = "dict" -> IF k \in DOMAIN v.d THEN "true" ELSE "false"
    [] v.t = "str" -> IF IsSubstring(k, v.s) THEN "true" ELSE "false"
    [] v.t = "list" -> IF PyInList(VStr(k), v.l) THEN "true" ELSE "false"
    [] OTHER -> "raise"

(* DottedDictWrapper._find: the object at the path keys, KeyError otherwise *)
RECURSIVE Find(_, _)
Find(v, keys) ==
  IF keys = <<>> THEN [ok |-> TRUE, v |-> v]
  ELSE IF IsDict(v)
       THEN IF keys[1] \in DOMAIN v.d THEN Find(v.d[keys[1]], Tail(keys))
            ELSE [ok |-> FALSE, v |-> None]
       ELSE [ok |-> FALSE, v |-> None]

(* DottedDictWrapper.__contains__ *)
Contains(d, key) == Find(d, Split(key, Sep)).ok

(* DottedDictWrapper.__getitem__: a mapping comes back wrapped, which the   *)
(* model does not tell from the mapping itself                              *)
GetItem(d, key) == Find(d, Split(key, Sep))

GetFound(found, default) == IF found.ok THEN found.v ELSE default

(* DottedDictWrapper.get *)
Get(d, key, default) == GetFound(GetItem(d, key), default)

(* v[k] = x for the mapping v, with the outcome r of what follows on x *)
(* fault: the mapping replaced by one that holds k alone *)
UnderAlone(v, k, r) == [ok |-> r.ok, v |-> VDict(k :> r.v)]

Under(v, k, r) == [ok |-> r.ok, v |-> VDict((k :> r.v) @@ v.d)]

Raised(v) == [ok |-> FALSE, v |-> v]

(* The loop and the final assignment of __setitem__, on the object v the    *)
(* loop has reached: ok is FALSE where an exception is raised, and v is the *)
(* object as the statements executed so far have left it.                   *)
RECURSIVE SetWalk(_, _, _)
SetStep(v, k, in, keys, value) ==
  CASE in = "raise" -> Raised(v)
    [] in = "false" ->
         IF IsDict(v) THEN Under(v, k, SetWalk(EmptyDict, keys, value)) ELSE Raised(v)
    [] OTHER ->
         IF IsDict(v) THEN Under(v, k, SetWalk(v.d[k], keys, value)) ELSE Raised(v)

SetWalk(v, keys, value) ==
  IF Len(keys) = 1
  THEN IF IsDict(v) THEN [ok |-> TRUE, v |-> VDict((keys[1] :> value) @@ v.d)]
       ELSE Raised(v)
  ELSE SetStep(v, keys[1], InTest(keys[1], v), Tail(keys), value)

(* fault: the exception of the loop swallowed *)
SetResultSwallowed(r) == [ok |-> TRUE, d |-> r.v]

SetResult(r) == [ok |-> r.ok, d |-> r.v]

(* DottedDictWrapper.__setitem__: ok FALSE is the KeyError; d is the store  *)
(* afterwards                                                               *)
SetItem(d, key, value) == SetResult(SetWalk(d, Split(key, Sep), value))

(* del settings[key]: DottedDictWrapper defines no __delitem__, so the      *)
(* statement raises and the store is as before                              *)
DelItem(d, key) == [ok |-> FALSE, d |-> d]

(* A set as a sequence, in one fixed order (a dict's iteration order is its *)
(* insertion order, which the model does not keep)                          *)
RECURSIVE SetToSeq(_)
SetToSeq(S) ==
  IF S = {} THEN <<>>
  ELSE LET x == CHOOSE y \in S : TRUE IN <<x>> \o SetToSeq(S \ {x})

(* DottedDictWrapper._walk: the (dotted key, value) pairs of the leaves *)
RECURSIVE WalkDict(_, _, _)
WalkEntry(x, p) ==
  IF IsDict(x) THEN WalkDict(x, SetToSeq(DOMAIN x.d), p) ELSE <<[k |-> p, v |-> x]>>

WalkDict(v, ks, pref) ==
  IF ks = <<>> THEN <<>>
  ELSE WalkEntry(v.d[ks[1]], IF pref # <<>> THEN pref \o <<Sep>> \o ks[1] ELSE ks[1])
       \o WalkDict(v, Tail(ks), pref)

(* DottedDictWrapper.items *)
Items(d) == WalkDict(d, SetToSeq(DOMAIN d.d), <<>>)

KeysOf(items) == [i \in 1..Len(items) |-> items[i].k]

(* DottedDictWrapper.keys *)
Keys(d) == KeysOf(Items(d))

(* ------------------------ Item Model (interview.py) ------------------- *)

(* The texts interview.py compares kind, type and values_sort with. *)
kBranch == <<"b", "r", "a", "n", "c", "h">>

kInclude == <<"i", "n", "c", "l", "u", "d", "e">>

kNotice == <<"n", "o", "t", "i", "c", "e">>

kQuestion == <<"q", "u", "e", "s", "t", "i", "o", "n">>

kReset == <<"r", "e", "s", "e", "t">>

kSet == <<"s", "e", "t">>

kUpdate == <<"u", "p", "d", "a", "t", "e">>

tBool == <<"b", "o", "o", "l">>

tCsv == <<"c", "s", "v">>

tFloat == <<"f", "l", "o", "a", "t">>

tInt == <<"i", "n", "t">>

tStr == <<"s", "t", "r">>

tSsv == <<"s", "s", "v">>

(* item_cls_lookup: the kinds that have an Item class *)
ItemKinds == {kBranch, kInclude, kNotice, kQuestion, kReset, kSet, kUpdate}

(* An item configuration with no field: every field of a node is a Python  *)
(* value, or NoValue where the mapping has no such key.                    *)
Blank ==
  [kind |-> NoValue, name |-> NoValue, disabled |-> NoValue, section |-> NoValue,
   parameterize |-> NoValue, key |-> NoValue, type |-> NoValue, value |-> NoValue,
   default |-> NoValue, force |-> NoValue, multivalue |-> NoValue, range |-> NoValue,
   regexp |-> NoValue, required |-> NoValue, values |-> NoValue,
   values_regexp |-> NoValue, values_sort |-> NoValue, title |-> NoValue,
   text |-> NoValue, interview |-> NoValue, match_key |-> NoValue,
   match_values |-> NoValue, match_not_values |-> NoValue, path |-> NoValue,
   reset_keys |-> NoValue, reset_key_regexp |-> NoValue]

(* A node with the given fields. *)
Node(fields) == fields @@ Blank

(* "f" in config *)
Has(cfg, f) == cfg[f] # NoValue

(* config.get(f, default), Item.get *)
CfgGet(cfg, f, default) == IF Has(cfg, f) THEN cfg[f] ELSE default

(* str(v) as an f-string formats it *)
Fmt(v) ==
  CASE v.t = "str" -> v.s
    [] v.t = "int" -> IntToText(v.n)
    [] v.t = "bool" -> IF v.b THEN <<"T", "r", "u", "e">> ELSE <<"F", "a", "l", "s", "e">>
    [] OTHER -> <<"N", "o", "n", "e">>

(* re.compile(p).match(s) for patterns made of literals, \x, ., *, +, a     *)
(* leading ^ and a trailing $: a match at the start of s                    *)
RECURSIVE ReHere(_, _)
ReHere(p, s) ==
  IF p = <<>> THEN TRUE
  ELSE IF p = <<"$">> THEN s = <<>>
  ELSE LET esc == p[1] = "\\" /\ Len(p) >= 2
           lit == IF esc THEN p[2] ELSE p[1]
           any == ~esc /\ p[1] = "."
           rest == Tail2(p, IF esc THEN 3 ELSE 2)
           q == IF rest # <<>> THEN rest[1] ELSE ""
           Hit(c) == any \/ c = lit
           Run(n) == \A i \in 1..n : Hit(s[i])
       IN IF q = "*"
          THEN \E n \in 0..Len(s) : Run(n) /\ ReHere(Tail(rest), Tail2(s, n + 1))
          ELSE IF q = "+"
          THEN \E n \in 1..Len(s) : Run(n) /\ ReHere(Tail(rest), Tail2(s, n + 1))
          ELSE s # <<>> /\ Hit(s[1]) /\ ReHere(rest, Tail(s))

ReMatch(p, s) == IF p # <<>> /\ p[1] = "^" THEN ReHere(Tail(p), s) ELSE ReHere(p, s)

(* Item.__init__, "filter values": the values values_regexp matches;      *)
(* match() raises for a value that is no str                               *)
FilterValues(cfg) ==
  IF Has(cfg, "values_regexp")
  THEN [ok |-> \A i \in 1..Len(cfg.values.l) : cfg.values.l[i].t = "str",
        l |-> SelectSeq(cfg.values.l,
                        LAMBDA v : v.t = "str" /\ ReMatch(cfg.values_regexp.s, v.s))]
  ELSE [ok |-> TRUE, l |-> cfg.values.l]

(* Item.__init__, "convert values": int(v) or float(v) of each value of an *)
(* int or float item                                                       *)
ConvertValues(typ, f) ==
  CASE typ = tInt ->
         [ok |-> f.ok /\ \A i \in 1..Len(f.l) : PyInt(f.l[i]).ok,
          l |-> [i \in 1..Len(f.l) |-> VInt(PyInt(f.l[i]).n)]]
    [] typ = tFloat ->
         [ok |-> f.ok /\ \A i \in 1..Len(f.l) : PyFloat(f.l[i]).ok,
          l |-> [i \in 1..Len(f.l) |-> VFloat(PyFloat(f.l[i]).x)]]
    [] OTHER -> f

InitValues(cfg, conv) ==
  IF conv.ok /\ CfgGet(cfg, "values_sort", None) # VStr(<<"d", "e", "s", "c">>)
  THEN [ok |-> TRUE, cfg |-> [cfg EXCEPT !.values = VList(conv.l)]]
  ELSE [ok |-> FALSE, cfg |-> cfg]

(* Item.__init__, the part that rewrites config["values"]: the filter by   *)
(* values_regexp, the conversion of the values of an int or float item and *)
(* values_sort ("desc" calls reverse(), a name the module does not define).*)
(* ok is FALSE where the constructor raises.  The order sorted() gives is  *)
(* not kept: values is only ever tested for membership.                    *)
ItemInit(cfg) ==
  IF ~Has(cfg, "values") THEN [ok |-> TRUE, cfg |-> cfg]
  ELSE IF ~Has(cfg, "type") THEN [ok |-> FALSE, cfg |-> cfg]
  ELSE InitValues(cfg, ConvertValues(cfg.type.s, FilterValues(cfg)))

FqFail == [ok |-> FALSE, key |-> <<>>]

(* get_fqkey, "parameterize key" *)
WithCount(key, count) ==
  IF count.ok THEN [ok |-> TRUE, key |-> key \o <<Sep>> \o IntToText(count.n)] ELSE FqFail

Parameterized(cfg, key, d) ==
  IF ~Has(cfg, "parameterize") THEN [ok |-> TRUE, key |-> key]
  ELSE WithCount(key, PyInt(Get(d, cfg.parameterize.s, VInt(0))))

(* fault: the section prefixed to a key with a dot as well *)
SectionedAlways(cfg, key) ==
  IF Has(cfg, "section") THEN Fmt(cfg.section) \o <<Sep>> \o key ELSE key

(* get_fqkey, the section prefix of a key without a dot *)
Sectioned(cfg, key) ==
  IF ~HasChar(key, Sep) /\ Has(cfg, "section") THEN Fmt(cfg.section) \o <<Sep>> \o key
  ELSE key

FqkeyOf(cfg, k0, d) ==
  IF k0.t # "str" THEN FqFail ELSE Parameterized(cfg, Sectioned(cfg, k0.s), d)

(* Item.get_fqkey: [section.]key[.count].  key is the explicit key, or     *)
(* None for the node's own.  ok is FALSE where the method raises (no key,  *)
(* a counter that int() rejects).                                          *)
GetFqkey(cfg, key, d) ==
  FqkeyOf(cfg, IF key = None THEN CfgGet(cfg, "key", None) ELSE key, d)

TextList(parts) == VList([i \in 1..Len(parts) |-> VStr(parts[i])])

AsInt(r) == [ok |-> r.ok, v |-> VInt(r.n)]

AsFloat(r) == [ok |-> r.ok, v |-> VFloat(r.x)]

(* Item.set, "convert value": the value as the declared type gives it; ok  *)
(* is FALSE where the conversion raises (split() of a non-str, int() or    *)
(* float() of something that is no number).                                *)
Convert(typ, value) ==
  CASE typ = tBool -> [ok |-> TRUE, v |-> VBool(PyBool(value))]
    [] typ = tCsv ->
         IF value.t = "str" THEN [ok |-> TRUE, v |-> TextList(Split(value.s, ","))]
         ELSE [ok |-> FALSE, v |-> value]
    [] typ = tFloat -> AsFloat(PyFloat(value))
    [] typ = tInt -> AsInt(PyInt(value))
    [] typ = tSsv ->
         IF value.t = "str" THEN [ok |-> TRUE, v |-> TextList(SplitWs(value.s))]
         ELSE [ok |-> FALSE, v |-> value]
    [] OTHER -> [ok |-> TRUE, v |-> value]

(* Whether b divides a: (a % b == 0) with Python's %, which raises for b = 0 *)
Divides(b, a) == b # 0 /\ a % (IF b < 0 THEN 0 - b ELSE b) = 0

(* fault: "v <= lo or v >= hi or (v - lo) % step != 0", negated *)
InRangeExclusive(lo, hi, step, v) == v > lo /\ v < hi /\ Divides(step, v - lo)

(* "v < lo or v > hi or (v - lo) % step != 0", negated *)
InRange(lo, hi, step, v) == v >= lo /\ v <= hi /\ Divides(step, v - lo)

IntAsX(r) == [ok |-> r.ok, x |-> r.n]

(* int(x) of an int item, float(x) (in tenths) of a float item *)
Scaled(typ, v) == IF typ = tInt THEN IntAsX(PyInt(v)) ELSE PyFloat(v)

RangeNum(lo, hi, step, xvalues) ==
  /\ lo.ok /\ hi.ok /\ step.ok
  /\ \A i \in 1..Len(xvalues) :
       IsNumber(xvalues[i]) /\
       InRange(lo.x, hi.x, step.x,
               IF xvalues[i].t = "int" THEN xvalues[i].n ELSE NumTenths(xvalues[i]))

(* Item.set, the check of the elements against lo, hi and step.  For a     *)
(* float item the operands are taken in tenths.  For any other type than   *)
(* int and float lo and hi stay texts, and comparing or subtracting raises *)
(* for every element.                                                      *)
RangeCheck(typ, lo, hi, step, xvalues) ==
  IF typ \notin {tInt, tFloat} THEN xvalues = <<>>
  ELSE RangeNum(Scaled(typ, VStr(lo)), Scaled(typ, VStr(hi)),
                Scaled(typ, VStr(IF step = <<>> THEN <<"1">> ELSE step)), xvalues)

RangeHiStep(typ, lo, hs, xvalues) ==
  RangeCheck(typ, lo, hs[1], IF Len(hs) > 1 THEN Join(Tail(hs), ":") ELSE <<"1">>, xvalues)

RangeParts(typ, parts, xvalues) ==
  IF Len(parts) < 2 THEN FALSE
  ELSE RangeHiStep(typ, parts[1], Split(Join(Tail(parts), "-"), ":"), xvalues)

(* Item.set, "split range into lo, hi, step" and "check values" of the     *)
(* range "lo-hi[:step]"                                                    *)
RangeOk(typ, rng, xvalues) == RangeParts(typ, Split(rng, "-"), xvalues)

(* fault: every declared constraint evaluated, not only the first *)
ValidateAll(cfg, typ, xvalues) ==
  /\ ~(PyBool(CfgGet(cfg, "required", VBool(FALSE))) /\ xvalues = <<>>)
  /\ Has(cfg, "values") => \A i \in 1..Len(xvalues) : PyInList(xvalues[i], cfg.values.l)
  /\ Has(cfg, "regexp") =>
       \A i \in 1..Len(xvalues) : xvalues[i].t = "str" /\ ReMatch(cfg.regexp.s, xvalues[i].s)
  /\ Has(cfg, "range") => RangeOk(typ, cfg.range.s, xvalues)

(* Item.set, "validate value": required, else values, else regexp, else    *)
(* range - the first of the four that applies is the only one evaluated.   *)
Validate(cfg, typ, xvalues) ==
  IF PyBool(CfgGet(cfg, "required", VBool(FALSE))) /\ xvalues = <<>> THEN FALSE
  ELSE IF Has(cfg, "values")
  THEN \A i \in 1..Len(xvalues) : PyInList(xvalues[i], cfg.values.l)
  ELSE IF Has(cfg, "regexp")
  THEN \A i \in 1..Len(xvalues) :
         xvalues[i].t = "str" /\ ReMatch(cfg.regexp.s, xvalues[i].s)
  ELSE IF Has(cfg, "range") THEN RangeOk(typ, cfg.range.s, xvalues)
  ELSE TRUE

(* The key Item.set commits under: self.key, which Item.__init__ takes     *)
(* from its caller - walk passes item_config.get("key", NoValue).          *)
ItemKey(cfg) == CfgGet(cfg, "key", NoValue)

SetFail(d) == [ok |-> FALSE, d |-> d]

(* Item.set, "update interview settings": settings[key] = value *)
Commit(key, value, d) == IF key.t # "str" THEN SetFail(d) ELSE SetItem(d, key.s, value)

(* Item.set, "listify value": xvalues *)
XValues(value) == IF value.t = "list" THEN value.l ELSE <<value>>

(* fault: the commit made ahead of the validation *)
SetCommitFirst(cfg, conv, d) ==
  IF ~conv.ok THEN SetFail(d)
  ELSE IF conv.v.t = "list" /\ ~PyBool(CfgGet(cfg, "multivalue", VBool(FALSE)))
  THEN SetFail(d)
  ELSE IF ~Validate(cfg, cfg.type.s, XValues(conv.v))
  THEN SetFail(Commit(ItemKey(cfg), conv.v, d).d)
  ELSE Commit(ItemKey(cfg), conv.v, d)

(* Item.set, from the converted value on *)
SetConverted(cfg, conv, d) ==
  IF ~conv.ok THEN SetFail(d)
  ELSE IF conv.v.t = "list" /\ ~PyBool(CfgGet(cfg, "multivalue", VBool(FALSE)))
  THEN SetFail(d)
  ELSE IF ~Validate(cfg, cfg.type.s, XValues(conv.v)) THEN SetFail(d)
  ELSE Commit(ItemKey(cfg), conv.v, d)

(* Item.set, "get default" *)
WithDefault(cfg, value) ==
  IF Has(cfg, "default") /\ value \in {None, VStr(<<>>)} THEN cfg.default ELSE value

(* Item.set(value) of the item of node cfg on the store d.  ok is FALSE    *)
(* where the method raises; d is the store afterwards.                     *)
ItemSet(cfg, value, d) ==
  IF ~Has(cfg, "type") \/ cfg.type.t # "str" THEN SetFail(d)
  ELSE IF cfg.kind = VStr(kNotice) /\ ~Has(cfg, "default") THEN SetFail(d)
  ELSE SetConverted(cfg,
                    Convert(cfg.type.s,
                            WithDefault(cfg, IF cfg.kind = VStr(kNotice) THEN None ELSE value)),
                    d)

(* ------------------- documents, stores and answers ------------------- *)
(* The interview documents, the saved settings a session starts from and   *)
(* the answers a caller gives: the inputs the model is checked over.       *)

Question(fields) == Node(fields @@ [kind |-> VStr(kQuestion)])

SetNode(fields) == Node(fields @@ [kind |-> VStr(kSet)])

Branch(fields, items) == Node(fields @@ [kind |-> VStr(kBranch), interview |-> VList(items)])

Update(fields) == Node(fields @@ [kind |-> VStr(kUpdate), type |-> VStr(tInt)])

Reset(fields) == Node(fields @@ [kind |-> VStr(kReset)])

QStr(key) == Question([key |-> VStr(key), type |-> VStr(tStr)])

(* Scenario A and its variants: one question *)
DocQuestion == <<QStr(<<"k">>)>>

DocRequired == <<Question([key |-> VStr(<<"k">>), type |-> VStr(tStr), required |-> VBool(TRUE)])>>

DocDefault ==
  <<Question([key |-> VStr(<<"k">>), type |-> VStr(tStr), default |-> VStr(<<"d">>)])>>

DocDotted == <<QStr(<<"a", ".", "b">>)>>

DocSection ==
  <<Question([key |-> VStr(<<"k">>), type |-> VStr(tStr), section |-> VStr(<<"s">>)])>>

DocParam ==
  <<Question([key |-> VStr(<<"k">>), type |-> VStr(tInt), parameterize |-> VStr(<<"c">>)]),
    QStr(<<"x">>)>>

DocForce ==
  <<Question([key |-> VStr(<<"k">>), type |-> VStr(tStr), force |-> VBool(TRUE)]),
    QStr(<<"x">>)>>

DocDisabled ==
  <<Question([key |-> VStr(<<"k">>), type |-> VStr(tStr), disabled |-> VBool(TRUE)]),
    QStr(<<"x">>)>>

(* the validation steps of Item.set *)
DocRange ==
  <<Question([key |-> VStr(<<"k">>), type |-> VStr(tInt),
              range |-> VStr(<<"1", "-", "5", ":", "2">>)])>>

DocValues ==
  <<Question([key |-> VStr(<<"k">>), type |-> VStr(tInt),
              values |-> VList(<<VStr(<<"2">>), VStr(<<"3">>)>>)])>>

DocRegexp ==
  <<Question([key |-> VStr(<<"k">>), type |-> VStr(tStr),
              regexp |-> VStr(<<"^", "v", "+", "$">>)])>>

DocCsv == <<Question([key |-> VStr(<<"k">>), type |-> VStr(tCsv)])>>

DocMulti ==
  <<Question([key |-> VStr(<<"k">>), type |-> VStr(tSsv), multivalue |-> VBool(TRUE),
              required |-> VBool(TRUE)])>>

DocNotice ==
  <<Node([kind |-> VStr(kNotice), key |-> VStr(<<"k">>), type |-> VStr(tStr),
          default |-> VStr(<<"d">>)]),
    Node([kind |-> VStr(kNotice), key |-> VStr(<<"x">>), type |-> VStr(tStr)])>>

(* set nodes *)
DocSet ==
  <<SetNode([key |-> VStr(<<"a">>), type |-> VStr(tInt), value |-> VInt(1)]),
    QStr(<<"k">>)>>

DocSetSection ==
  <<SetNode([key |-> VStr(<<"k">>), type |-> VStr(tInt), value |-> VInt(1),
             section |-> VStr(<<"s">>)])>>

(* Scenario B: sequential update nodes *)
DocUpdate3 ==
  <<Update([key |-> VStr(<<"c">>), value |-> VInt(1)]),
    Update([key |-> VStr(<<"c">>), value |-> VInt(1)]),
    Update([key |-> VStr(<<"c">>), value |-> VInt(1)])>>

DocUpdate2 ==
  <<Update([key |-> VStr(<<"c">>), value |-> VInt(2)]),
    Update([key |-> VStr(<<"c">>), value |-> VInt(2)])>>

DocUpdate1 == <<Update([key |-> VStr(<<"a", ".", "b">>)])>>

(* an update ahead of a branch that tests the counter *)
DocUpdateBranch ==
  <<Update([key |-> VStr(<<"c">>)]),
    Branch([match_key |-> VStr(<<"c">>), match_values |-> VList(<<VInt(1)>>)],
           <<QStr(<<"k">>)>>),
    QStr(<<"x">>)>>

DocBranchUpdate ==
  <<Branch([match_key |-> VStr(<<"c">>), match_values |-> VList(<<VInt(1)>>)],
           <<QStr(<<"k">>)>>),
    Update([key |-> VStr(<<"c">>)])>>

(* branch matching *)
OsValues == VList(<<VStr(<<"u">>), VStr(<<"c">>)>>)

DocBranch ==
  <<Branch([match_key |-> VStr(<<"o", "s">>), match_values |-> OsValues], <<QStr(<<"k">>)>>),
    QStr(<<"o", "s">>)>>

DocBranchSection ==
  <<Branch([match_key |-> VStr(<<"o", "s">>), match_values |-> OsValues,
            section |-> VStr(<<"s">>)],
           <<QStr(<<"k">>)>>),
    QStr(<<"o", "s">>)>>

DocBranchNot ==
  <<Branch([match_key |-> VStr(<<"o", "s">>), match_values |-> OsValues,
            match_not_values |-> VList(<<VStr(<<"c">>)>>)],
           <<QStr(<<"k">>)>>),
    Branch([match_key |-> VStr(<<"o", "s">>)], <<QStr(<<"x">>)>>),
    Branch([match_key |-> VStr(<<"o", "s">>),
            match_not_values |-> VList(<<VStr(<<"c">>)>>)],
           <<QStr(<<"a">>)>>)>>

(* a branch that commits its own value, after a branch that tests it *)
DocBranchKey ==
  <<Branch([match_key |-> VStr(<<"a">>), match_values |-> VList(<<VInt(1)>>)],
           <<QStr(<<"k">>)>>),
    Branch([key |-> VStr(<<"a">>), type |-> VStr(tInt), value |-> VInt(1)], <<>>),
    QStr(<<"x">>)>>

(* the same, with nothing after the branch that commits *)
DocBranchCommit ==
  <<Branch([match_key |-> VStr(<<"a">>), match_values |-> VList(<<VInt(1)>>)],
           <<QStr(<<"k">>)>>),
    Branch([key |-> VStr(<<"a">>), type |-> VStr(tInt), value |-> VInt(1)], <<>>)>>

(* Scenario C: reset *)
DocReset ==
  <<Reset([reset_key_regexp |-> VStr(<<"^", "t", "\\", ".", ".", "*">>)]),
    QStr(<<"k">>)>>

DocResetKeys ==
  <<Reset([reset_keys |-> VList(<<VStr(<<"k">>)>>), key |-> VStr(<<"a">>),
           type |-> VStr(tInt), value |-> VInt(1)]),
    QStr(<<"x">>)>>

(* include *)
DocInclude == <<Node([kind |-> VStr(kInclude), path |-> VStr(<<"p">>)]), QStr(<<"x">>)>>

DocIncludeMissing == <<Node([kind |-> VStr(kInclude), path |-> VStr(<<"m">>)])>>

(* the files include nodes name *)
Files == (<<"p">> :> DocQuestion)

Docs ==
  {DocQuestion, DocRequired, DocDefault, DocDotted, DocSection, DocParam, DocForce,
   DocDisabled, DocRange, DocValues, DocRegexp, DocCsv, DocMulti, DocNotice, DocSet,
   DocSetSection, DocUpdate3, DocUpdate2, DocUpdate1, DocUpdateBranch, DocBranchUpdate,
   DocBranch, DocBranchSection, DocBranchNot, DocBranchKey, DocBranchCommit, DocReset, DocResetKeys,
   DocInclude, DocIncludeMissing}

(* a store of top-level leaves *)
Leaves(f) == VDict(f)

Stores ==
  {EmptyDict,
   Leaves(<<"k">> :> VStr(<<"v">>)),
   Leaves(<<"o", "s">> :> VStr(<<"u">>)),
   Leaves(<<"o", "s">> :> VStr(<<"c">>) @@ <<"c">> :> VInt(1)),
   Leaves(<<"a">> :> VInt(1)),
   Leaves(<<"a">> :> VStr(<<"x", "b">>) @@ <<"c">> :> VStr(<<"2">>)),
   Leaves(<<"t">> :> Leaves(<<"x">> :> VInt(1)) @@ <<"k">> :> VStr(<<"v">>)),
   Leaves(<<"s">> :> Leaves(<<"o", "s">> :> VStr(<<"u">>)) @@ <<"t">> :> VInt(0))}

(* what a caller passes to Item.set *)
Answers ==
  {VStr(<<"v">>), VStr(<<>>), VStr(<<"3">>), VStr(<<"2">>), VStr(<<"a", ",", "b">>),
   VStr(<<"x", " ", "y">>)}

(* --------------------- Traversal Engine (Interview.next) -------------- *)

(* next, the local get_fqkey(item_config, key): "parameterize key", with   *)
(* the counter read from self.settings                                     *)
ScanParameterized(cfg, key, d) ==
  IF ~Has(cfg, "parameterize") THEN [ok |-> TRUE, key |-> key]
  ELSE WithCount(key, PyInt(Get(d, cfg.parameterize.s, VInt(0))))

(* next, the local get_fqkey: the section prefix of a key without a dot *)
ScanSectioned(cfg, key) ==
  IF ~HasChar(key, Sep) /\ Has(cfg, "section") THEN Fmt(cfg.section) \o <<Sep>> \o key
  ELSE key

ScanFqkeyOf(cfg, k0, d) ==
  IF k0.t # "str" THEN FqFail ELSE ScanParameterized(cfg, ScanSectioned(cfg, k0.s), d)

(* next, the local get_fqkey(item_config, key=None), which walk does not   *)
(* call: it calls item.get_fqkey                                           *)
ScanGetFqkey(cfg, key, d) ==
  ScanFqkeyOf(cfg, IF key = None THEN CfgGet(cfg, "key", None) ELSE key, d)

(* Interview._load: the documents an include can name.  A path with no     *)
(* entry is a file that cannot be opened.                                  *)
Load(files, path) ==
  IF path \in DOMAIN files THEN [ok |-> TRUE, doc |-> files[path]]
  ELSE [ok |-> FALSE, doc |-> <<>>]

(* fault: the two tests joined by "or" *)
NoMatchEither(match_value, match_values, match_not_values) ==
  \/ (match_values = NoValue \/ ~PyInList(match_value, match_values.l))
  \/ (match_not_values = NoValue \/ PyInList(match_value, match_not_values.l))

(* walk, the test "(match_values == NoValue or match_value not in         *)
(* match_values) and (match_not_values == NoValue or match_value in        *)
(* match_not_values)": no match                                            *)
NoMatch(match_value, match_values, match_not_values) ==
  /\ (match_values = NoValue \/ ~PyInList(match_value, match_values.l))
  /\ (match_not_values = NoValue \/ PyInList(match_value, match_not_values.l))

MatchFq(cfg, fq, d) ==
  IF ~fq.ok THEN "raise"
  ELSE IF NoMatch(Get(d, fq.key, NoValue), CfgGet(cfg, "match_values", NoValue),
                  CfgGet(cfg, "match_not_values", NoValue))
  THEN "skip"
  ELSE "enter"

(* walk, "special case for branch": "skip" where the walk continues with   *)
(* the next sibling, "enter" where it goes on with the branch, "raise"     *)
(* where get_fqkey raises.                                                 *)
BranchMatch(cfg, d) ==
  IF ~Has(cfg, "match_key") THEN "enter" ELSE MatchFq(cfg, GetFqkey(cfg, cfg.match_key, d), d)

(* walk, reset by reset_keys: each key that is in the store is deleted *)
RECURSIVE ResetKeys(_, _, _)
ResetDeleted(cfg, keys, r) == IF r.ok THEN ResetKeys(cfg, keys, r.d) ELSE r

ResetKey(cfg, keys, fq, d) ==
  IF ~fq.ok THEN SetFail(d)
  ELSE IF Contains(d, fq.key) THEN ResetDeleted(cfg, keys, DelItem(d, fq.key))
  ELSE ResetKeys(cfg, keys, d)

ResetKeys(cfg, keys, d) ==
  IF keys = <<>> THEN [ok |-> TRUE, d |-> d]
  ELSE ResetKey(cfg, Tail(keys), GetFqkey(cfg, keys[1], d), d)

(* walk, reset by reset_key_regexp, over the snapshot list(settings.keys()) *)
RECURSIVE ResetRegexp(_, _, _)
ResetMatched(regexp, keys, r) == IF r.ok THEN ResetRegexp(regexp, keys, r.d) ELSE r

ResetRegexp(regexp, keys, d) ==
  IF keys = <<>> THEN [ok |-> TRUE, d |-> d]
  ELSE IF ReMatch(regexp, keys[1]) THEN ResetMatched(regexp, Tail(keys), DelItem(d, keys[1]))
  ELSE ResetRegexp(regexp, Tail(keys), d)

(* walk, "special case for reset" *)
ResetDelete(cfg, d) ==
  IF Has(cfg, "reset_keys") THEN ResetKeys(cfg, cfg.reset_keys.l, d)
  ELSE IF Has(cfg, "reset_key_regexp") THEN ResetRegexp(cfg.reset_key_regexp.s, Keys(d), d)
  ELSE SetFail(d)

(* fault: force not looked at *)
NeedsValueAbsent(cfg, fqkey, d) == Get(d, fqkey, NoValue) = NoValue

(* fault: "curr_value == NoValue or not force" *)
NeedsValueUnlessForce(cfg, fqkey, d) ==
  Get(d, fqkey, NoValue) = NoValue \/ ~PyBool(CfgGet(cfg, "force", VBool(FALSE)))

(* walk: "curr_value == NoValue or force" *)
NeedsValue(cfg, fqkey, d) ==
  Get(d, fqkey, NoValue) = NoValue \/ PyBool(CfgGet(cfg, "force", VBool(FALSE)))

(* fault: no RetryWalk after the commit of a set node *)
RestartKindsReset == {kReset}

(* walk: the kinds whose commit raises RetryWalk *)
RestartKinds == {kReset, kSet}

(* walk: the kinds that commit their own value *)
AutoSetKinds == {kBranch, kReset, kSet}

Included(cfg, loaded) ==
  IF loaded.ok THEN [ok |-> TRUE, cfg |-> [cfg EXCEPT !.interview = VList(loaded.doc)]]
  ELSE [ok |-> FALSE, cfg |-> cfg]

(* walk, the include case: the node rewritten in place into a branch; when *)
(* the file cannot be loaded the node is left cleared, with kind and name. *)
ExpandInclude(cfg, files) ==
  Included(Node([kind |-> VStr(kBranch),
                 name |-> VStr(<<"i", "n", "c", "l", "u", "d", "e", "d", "-">> \o Fmt(cfg.path))]),
           Load(files, cfg.path.s))

(* What handling one node, or one list of nodes, comes to:                 *)
(*   out  "next" (go on with the next sibling), "none", "item", "retry"    *)
(*        (RetryWalk raised) or "error" (any other exception raised);      *)
(*   cfg  the node, or the list, as the pass has left it;                  *)
(*   d    the store as the pass has left it;  vis  the nodes reached;      *)
(*   item the Item returned.                                               *)
NoItem == [walkpath |-> <<>>, at |-> <<>>, config |-> Blank]

Result(out, cfg, d, vis, it) == [out |-> out, cfg |-> cfg, d |-> d, vis |-> vis, item |-> it]

RECURSIVE Walk(_, _, _, _, _)

(* walk, what the walk of a branch's subtree gives the branch *)
Entered(cfg, r) ==
  Result(IF r.out = "none" THEN "next" ELSE r.out,
         [cfg EXCEPT !.interview = VList(r.cfg)], r.d, r.vis, r.item)

(* walk, "handle branch match now": the recursion into the subtree *)
WalkInterview(cfg, here, d, vis) ==
  IF cfg.kind.s # kBranch \/ ~PyBool(CfgGet(cfg, "interview", NoValue))
  THEN Result("next", cfg, d, vis, NoItem)
  ELSE IF cfg.interview.t # "list" THEN Result("error", cfg, d, vis, NoItem)
  ELSE Entered(cfg, Walk(cfg.interview.l, 1, here, d, vis))

(* walk, after item.set(value) of a branch, reset or set node *)
Committed(cfg, here, set, vis) ==
  IF ~set.ok THEN Result("error", cfg, set.d, vis, NoItem)
  ELSE IF cfg.kind.s \in RestartKinds THEN Result("retry", cfg, set.d, vis, NoItem)
  ELSE WalkInterview(cfg, here, set.d, vis)

(* walk, "set value as/if needed", for a node with a key *)
WalkKeyed(cfg, walkpath, here, fq, d, vis) ==
  IF ~fq.ok THEN Result("error", cfg, d, vis, NoItem)
  ELSE IF ~NeedsValue(cfg, fq.key, d) THEN WalkInterview(cfg, here, d, vis)
  ELSE IF cfg.kind.s \in AutoSetKinds
  THEN Committed(cfg, here, ItemSet(cfg, CfgGet(cfg, "value", None), d), vis)
  ELSE Result("item", cfg, d, vis, [walkpath |-> walkpath, at |-> here, config |-> cfg])

(* walk, "set value as/if needed" *)
WalkSetValue(cfg, walkpath, here, d, vis) ==
  IF ~Has(cfg, "key") THEN WalkInterview(cfg, here, d, vis)
  ELSE WalkKeyed(cfg, walkpath, here, GetFqkey(cfg, None, d), d, vis)

(* walk, the special cases of branch and reset: "skip", "raise" or "go",   *)
(* and the store as the deletions of a reset have left it                  *)
Special(cfg, d) ==
  CASE cfg.kind.s = kBranch ->
         [go |-> IF BranchMatch(cfg, d) = "enter" THEN "go" ELSE BranchMatch(cfg, d), d |-> d]
    [] cfg.kind.s = kReset ->
         [go |-> IF ResetDelete(cfg, d).ok THEN "go" ELSE "raise", d |-> ResetDelete(cfg, d).d]
    [] OTHER -> [go |-> "go", d |-> d]

(* walk, the kinds branch, notice, question, set and reset *)
WalkSetter(cfg, walkpath, here, sp, vis) ==
  CASE sp.go = "skip" -> Result("next", cfg, sp.d, vis, NoItem)
    [] sp.go = "raise" -> Result("error", cfg, sp.d, vis, NoItem)
    [] OTHER -> WalkSetValue(cfg, walkpath, here, sp.d, vis)

Updated(cfg, set, vis) ==
  Result(IF set.ok THEN "next" ELSE "error", cfg, set.d, vis, NoItem)

(* fault: item.set(value), the count left out *)
UpdateByValue(cfg, value, count, d, vis) ==
  IF ~value.ok \/ ~count.ok THEN Result("error", cfg, d, vis, NoItem)
  ELSE Updated(cfg, ItemSet(cfg, VInt(value.n), d), vis)

UpdateBy(cfg, value, count, d, vis) ==
  IF ~value.ok \/ ~count.ok THEN Result("error", cfg, d, vis, NoItem)
  ELSE Updated(cfg, ItemSet(cfg, VInt(count.n + value.n), d), vis)

(* fault: the update guarded by the presence of its key *)
WalkUpdateOnce(cfg, d, vis) ==
  IF Has(cfg, "key") /\ cfg.key.t = "str" /\ Contains(d, cfg.key.s)
  THEN Result("next", cfg, d, vis, NoItem)
  ELSE UpdateBy(cfg, PyInt(CfgGet(cfg, "value", VInt(1))), PyInt(VInt(0)), d, vis)

(* walk, the update case: settings.get(key, 0) of a key that is no str is 0 *)
WalkUpdate(cfg, d, vis) ==
  UpdateBy(cfg, PyInt(CfgGet(cfg, "value", VInt(1))),
           PyInt(IF Has(cfg, "key") /\ cfg.key.t = "str" THEN Get(d, cfg.key.s, VInt(0))
                 ELSE VInt(0)),
           d, vis)

(* fault: the include expanded without RetryWalk *)
WalkIncludeOn(cfg, inc, d, vis) ==
  Result(IF inc.ok THEN "next" ELSE "error", inc.cfg, d, vis, NoItem)

(* fault: the expansion not written to the document *)
WalkIncludeLost(cfg, inc, d, vis) ==
  Result(IF inc.ok THEN "retry" ELSE "error", cfg, d, vis, NoItem)

(* walk, the include case *)
WalkInclude(cfg, inc, d, vis) ==
  Result(IF inc.ok THEN "retry" ELSE "error", inc.cfg, d, vis, NoItem)

(* walk, the tests on kind; the second "elif kind == reset" of the source  *)
(* is never reached, reset being among the kinds of the first test         *)
WalkKind(cfg, walkpath, here, d, vis) ==
  IF cfg.kind.s \in {kBranch, kNotice, kQuestion, kSet, kReset}
  THEN WalkSetter(cfg, walkpath, here, Special(cfg, d), vis)
  ELSE IF cfg.kind.s = kInclude
  THEN IF ~Has(cfg, "path") THEN Result("next", cfg, d, vis, NoItem)
       ELSE WalkInclude(cfg, ExpandInclude(cfg, Files), d, vis)
  ELSE WalkUpdate(cfg, d, vis)

Constructed(cfg0, init, walkpath, here, d, vis) ==
  IF ~init.ok THEN Result("error", cfg0, d, vis, NoItem)
  ELSE WalkKind(init.cfg, walkpath, here, d, vis)

(* walk, the body of the loop for one item_config that is not disabled:    *)
(* the lookup of the Item class, the construction of the Item, the tests   *)
(* on kind                                                                 *)
WalkNode(cfg0, walkpath, here, d, vis) ==
  IF ~(cfg0.kind.t = "str" /\ cfg0.kind.s \in ItemKinds)
  THEN Result("error", cfg0, d, vis, NoItem)
  ELSE Constructed(cfg0, ItemInit(cfg0), walkpath, here, d, vis)

(* walk, the loop goes on after the i-th item, or is left *)
WalkOn(items, i, walkpath, r) ==
  IF r.out = "next" THEN Walk([items EXCEPT ![i] = r.cfg], i + 1, walkpath, r.d, r.vis)
  ELSE Result(r.out, [items EXCEPT ![i] = r.cfg], r.d, r.vis, r.item)

WalkAt(items, i, walkpath, here, d, vis) ==
  WalkOn(items, i, walkpath, WalkNode(items[i], walkpath, here, d, Append(vis, here)))

(* walk(config, walkpath), from the i-th item on.  Positions are counted   *)
(* from 1 (enumerate counts from 0).                                       *)
Walk(items, i, walkpath, d, vis) ==
  IF i > Len(items) THEN Result("none", items, d, vis, NoItem)
  ELSE IF PyBool(CfgGet(items[i], "disabled", VBool(FALSE)))
  THEN Walk(items, i + 1, walkpath, d, vis)
  ELSE WalkAt(items, i, walkpath, Append(walkpath, i), d, vis)

(* ----------------------------- the session --------------------------- *)
(* config    Interview.config, the document (include nodes are rewritten   *)
(*           in place)                                                     *)
(* settings  Interview._settings, the store                                *)
(* pc        "idle": before the first call or after a commit;              *)
(*           "walk": inside next(), RetryWalk caught, the next pass due;   *)
(*           "item" / "none": next() has returned an item / None;          *)
(*           "error": next() has raised;  "seterror": Item.set has raised; *)
(*           "store": a caller of the store alone (StoreSpec)              *)
(* item      the Item next() returned last                                 *)
(* visited   the nodes the last pass reached, in order                     *)
(* scans     the calls of next() so far;  passes  the passes of this call  *)
(* last      the last operation: its name, the store and document before   *)
(*           it, its argument and whether it returned normally             *)
(* prev      the item the previous call of next() returned, when the       *)
(*           caller has not called Item.set since                          *)

MaxScans == 3

MaxPasses == 4

MaxStoreOps == 2

Op(op, key, arg, ok) ==
  [op |-> op, before |-> settings, cfg |-> config, key |-> key, arg |-> arg, ok |-> ok]

(* answers: the list test() is given, as the lines it had at the call and  *)
(* the number of them popped since.  No list: answers = None.              *)
NoAnswers == [lines |-> <<>>, used |-> 0]

Init ==
  /\ config \in Docs
  /\ settings \in Stores
  /\ pc = "idle"
  /\ item = NoItem
  /\ visited = <<>>
  /\ scans = 0
  /\ passes = 0
  /\ last = Op("init", <<>>, None, TRUE)
  /\ prev = [valid |-> FALSE, item |-> NoItem]
  /\ fresh = config
  /\ answers = NoAnswers

(* One pass of the loop of next(): walk(config, []) from the root. *)
Passed(r) ==
  /\ config' = r.cfg
  /\ settings' = r.d
  /\ visited' = r.vis
  /\ item' = r.item
  /\ pc' = IF r.out = "retry" THEN "walk" ELSE r.out
  /\ last' = Op("pass", <<>>, None, r.out # "error")

Pass == Passed(Walk(config, 1, <<>>, settings, <<>>))

(* next() as a function of the document and the store: the passes of its   *)
(* loop, of which n more may follow the first.  out is "retry" where the   *)
(* loop is still going after them.                                         *)
RECURSIVE Scan(_, _, _)
ScanOn(r, n) == IF r.out = "retry" /\ n > 0 THEN Scan(r.cfg, r.d, n - 1) ELSE r

Scan(items, d, n) == ScanOn(Walk(items, 1, <<>>, d, <<>>), n)

(* Interview.check: the method defines its own walk and ends there; the    *)
(* walk is never called, so nothing is raised and the document is left as  *)
(* it was.                                                                 *)
Check(items) == [ok |-> TRUE, cfg |-> items]

Checked(r) ==
  /\ config' = r.cfg
  /\ last' = Op("check", <<>>, None, r.ok)

(* The caller calls check() on the loaded document, ahead of the session. *)
CheckCall ==
  /\ pc = "idle"
  /\ last.op = "init"
  /\ Checked(Check(config))
  /\ UNCHANGED <<settings, pc, item, visited, scans, passes, prev, fresh, answers>>

(* The caller calls next(): the first pass. *)
NextCall ==
  /\ pc \in {"idle", "item", "none", "seterror"}
  /\ scans < MaxScans
  /\ scans' = scans + 1
  /\ passes' = 1
  /\ prev' = [valid |-> pc = "item", item |-> item]
  /\ UNCHANGED <<fresh, answers>>
  /\ Pass

(* RetryWalk was raised: the loop of next() walks again. *)
NextRetry ==
  /\ pc = "walk"
  /\ passes < MaxPasses
  /\ passes' = passes + 1
  /\ UNCHANGED <<scans, prev, fresh, answers>>
  /\ Pass

Answered(value, r) ==
  /\ settings' = r.d
  /\ pc' = IF r.ok THEN "idle" ELSE "seterror"
  /\ last' = Op("set", <<>>, value, r.ok)

(* The caller answers the item it was given: item.set(value). *)
AnswerItem ==
  /\ pc = "item"
  /\ \E value \in Answers : Answered(value, ItemSet(item.config, value, settings))
  /\ UNCHANGED <<config, item, visited, scans, passes, prev, fresh, answers>>

Next == CheckCall \/ NextCall \/ NextRetry \/ AnswerItem

Spec == Init /\ [][Next]_vars

(* ---------------------- sessions on forced nodes ---------------------- *)
(* The same session on documents with a set node or a question that has    *)
(* force true.                                                             *)

DocSetForce ==
  <<SetNode([key |-> VStr(<<"a">>), type |-> VStr(tInt), value |-> VInt(1),
             force |-> VBool(TRUE)]),
    QStr(<<"k">>)>>

DocSetForceLater ==
  <<QStr(<<"k">>),
    SetNode([key |-> VStr(<<"a">>), type |-> VStr(tInt), value |-> VInt(1),
             force |-> VBool(TRUE)]),
    QStr(<<"x">>)>>

DocForceInBranch ==
  <<Branch([match_key |-> VStr(<<"o", "s">>), match_values |-> OsValues],
           <<Question([key |-> VStr(<<"k">>), type |-> VStr(tStr), force |-> VBool(TRUE)])>>),
    QStr(<<"x">>)>>

ForceDocs == {DocSetForce, DocSetForceLater, DocForce, DocForceInBranch}

InitForce ==
  /\ config \in ForceDocs
  /\ settings \in Stores
  /\ pc = "idle"
  /\ item = NoItem
  /\ visited = <<>>
  /\ scans = 0
  /\ passes = 0
  /\ last = Op("init", <<>>, None, TRUE)
  /\ prev = [valid |-> FALSE, item |-> NoItem]
  /\ fresh = config
  /\ answers = NoAnswers

ForceSpec == InitForce /\ [][Next]_vars

(* ---------------------- sessions on update nodes ---------------------- *)
(* The same session on documents with one update node ahead of the nodes   *)
(* that end a pass: a question, a set node, a branch on the counter.       *)

DocUpdateSet ==
  <<Update([key |-> VStr(<<"c">>)]),
    SetNode([key |-> VStr(<<"a">>), type |-> VStr(tInt), value |-> VInt(1)]),
    QStr(<<"k">>)>>

DocUpdateQuestion ==
  <<Update([key |-> VStr(<<"c">>), value |-> VInt(2)]), QStr(<<"k">>), QStr(<<"x">>)>>

UpdateDocs == {DocUpdateSet, DocUpdateQuestion, DocUpdateBranch}

InitUpdate ==
  /\ config \in UpdateDocs
  /\ settings \in Stores
  /\ pc = "idle"
  /\ item = NoItem
  /\ visited = <<>>
  /\ scans = 0
  /\ passes = 0
  /\ last = Op("init", <<>>, None, TRUE)
  /\ prev = [valid |-> FALSE, item |-> NoItem]
  /\ fresh = config
  /\ answers = NoAnswers

UpdateSpec == InitUpdate /\ [][Next]_vars

(* ------------------------- the store on its own ----------------------- *)

StoreKeys ==
  {<<"a">>, <<"a", ".", "b">>, <<"a", ".", "b", ".", "c">>, <<"a", ".", "x", ".", "c">>,
   <<"k">>, <<"k", ".", "b">>, <<".", "b">>}

StoreValues == {VInt(1), VInt(2), VStr(<<"x", "b">>), VList(<<VStr(<<"b">>)>>)}

InitStore ==
  /\ config = <<>>
  /\ settings \in Stores
  /\ pc = "store"
  /\ item = NoItem
  /\ visited = <<>>
  /\ scans = 0
  /\ passes = 0
  /\ last = Op("init", <<>>, None, TRUE)
  /\ prev = [valid |-> FALSE, item |-> NoItem]
  /\ fresh = config
  /\ answers = NoAnswers

StoreDone(key, value, r) ==
  /\ settings' = r.d
  /\ last' = Op("setitem", key, value, r.ok)

(* settings[key] = value *)
StoreSet ==
  /\ pc = "store"
  /\ scans < MaxStoreOps
  /\ \E key \in StoreKeys, value \in StoreValues :
       StoreDone(key, value, SetItem(settings, key, value))
  /\ scans' = scans + 1
  /\ UNCHANGED <<config, pc, item, visited, passes, prev, fresh, answers>>

NextStore == StoreSet

StoreSpec == InitStore /\ [][NextStore]_vars

(* --------------------- Item.set on ranges, on its own ----------------- *)
(* Item.set of a question of type int whose one constraint is a range,     *)
(* applied to the texts of the integers -1..MaxAnswer.                     *)

MaxAnswer == 12

MaxRangeSets == 2

(* the ranges, each with the numbers its text stands for *)
RangeCases ==
  {[rng |-> <<"1", "-", "1", "0", ":", "2">>, lo |-> 1, hi |-> 10, step |-> 2],
   [rng |-> <<"1", "-", "5">>, lo |-> 1, hi |-> 5, step |-> 1],
   [rng |-> <<"2", "-", "1", "1", ":", "3">>, lo |-> 2, hi |-> 11, step |-> 3],
   [rng |-> <<"0", "-", "1", "2", ":">>, lo |-> 0, hi |-> 12, step |-> 1]}

RangeDoc(rng) == <<Question([key |-> VStr(<<"k">>), type |-> VStr(tInt), range |-> VStr(rng)])>>

RangeAnswers == {VStr(IntToText(n)) : n \in -1..MaxAnswer}

InitRange ==
  /\ config \in {RangeDoc(c.rng) : c \in RangeCases}
  /\ settings = EmptyDict
  /\ pc = "range"
  /\ item = NoItem
  /\ visited = <<>>
  /\ scans = 0
  /\ passes = 0
  /\ last = Op("init", <<>>, None, TRUE)
  /\ prev = [valid |-> FALSE, item |-> NoItem]
  /\ fresh = config
  /\ answers = NoAnswers

RangeDone(value, r) ==
  /\ settings' = r.d
  /\ last' = Op("set", <<>>, value, r.ok)

(* item.set(value) *)
RangeSet ==
  /\ pc = "range"
  /\ scans < MaxRangeSets
  /\ \E value \in RangeAnswers : RangeDone(value, ItemSet(config[1], value, settings))
  /\ scans' = scans + 1
  /\ UNCHANGED <<config, pc, item, visited, passes, prev, fresh, answers>>

NextRange == RangeSet

RangeSpec == InitRange /\ [][NextRange]_vars

(* ------------------- Item.set on several constraints ------------------ *)
(* Item.set on one question that declares more than one of required,       *)
(* values, regexp and range.                                               *)

MaxChainSets == 2

ChainRegexp == VStr(<<"^", "v", "+", "$">>)

ChainDocs ==
  {<<Question([key |-> VStr(<<"k">>), type |-> VStr(tInt),
               values |-> VList(<<VStr(<<"2">>), VStr(<<"3">>), VStr(<<"7">>)>>),
               range |-> VStr(<<"1", "-", "5", ":", "2">>)])>>,
   <<Question([key |-> VStr(<<"k">>), type |-> VStr(tStr),
               values |-> VList(<<VStr(<<"v">>), VStr(<<"3">>)>>), regexp |-> ChainRegexp])>>,
   <<Question([key |-> VStr(<<"k">>), type |-> VStr(tStr), regexp |-> ChainRegexp,
               range |-> VStr(<<"1", "-", "5">>)])>>,
   <<Question([key |-> VStr(<<"k">>), type |-> VStr(tStr), required |-> VBool(TRUE),
               values |-> VList(<<VStr(<<"v">>)>>)])>>,
   <<Question([key |-> VStr(<<"k">>), type |-> VStr(tStr), required |-> VBool(TRUE),
               regexp |-> ChainRegexp])>>,
   <<Question([key |-> VStr(<<"k">>), type |-> VStr(tInt), required |-> VBool(TRUE),
               range |-> VStr(<<"1", "-", "5", ":", "2">>)])>>}

ChainAnswers ==
  {VStr(<<"v">>), VStr(<<"v", "v">>), VStr(<<"3">>), VStr(<<"2">>), VStr(<<"7">>),
   VStr(<<"1">>)}

InitChain ==
  /\ config \in ChainDocs
  /\ settings = EmptyDict
  /\ pc = "chain"
  /\ item = NoItem
  /\ visited = <<>>
  /\ scans = 0
  /\ passes = 0
  /\ last = Op("init", <<>>, None, TRUE)
  /\ prev = [valid |-> FALSE, item |-> NoItem]
  /\ fresh = config
  /\ answers = NoAnswers

ChainDone(value, r) ==
  /\ settings' = r.d
  /\ last' = Op("set", <<>>, value, r.ok)

(* Item(...) of the question, then item.set(value) *)
ChainSet ==
  /\ pc = "chain"
  /\ scans < MaxChainSets
  /\ \E value \in ChainAnswers :
       ChainDone(value, ItemSet(ItemInit(config[1]).cfg, value, settings))
  /\ scans' = scans + 1
  /\ UNCHANGED <<config, pc, item, visited, passes, prev, fresh, answers>>

NextChain == ChainSet

ChainSpec == InitChain /\ [][NextChain]_vars

(* ------------------------ Interview.test with answers ----------------- *)

AnswerPrefix == <<"a", "n", "s", "w", "e", "r", ":">>

(* line.startswith(prefix) *)
StartsWith(line, prefix) ==
  Len(line) >= Len(prefix) /\ SubSeq(line, 1, Len(prefix)) = prefix

(* fault: the first line taken as the answer, whatever its prefix *)
RECURSIVE PopAnswerAny(_, _)
PopAnswerAny(lines, used) ==
  IF used >= Len(lines) THEN [found |-> FALSE, reply |-> <<>>, used |-> used]
  ELSE [found |-> TRUE,
        reply |-> Strip(SubSeq(lines[used + 1], Len(AnswerPrefix) + 1, Len(lines[used + 1]))),
        used |-> used + 1]

(* test, "while answers: line = answers.pop(0) ...": the reply of the      *)
(* first line that starts with "answer:", line[7:] stripped, and the       *)
(* number of lines popped; found is FALSE where the list runs out          *)
RECURSIVE PopAnswer(_, _)
PopAnswer(lines, used) ==
  IF used >= Len(lines) THEN [found |-> FALSE, reply |-> <<>>, used |-> used]
  ELSE IF StartsWith(lines[used + 1], AnswerPrefix)
  THEN [found |-> TRUE,
        reply |-> Strip(SubSeq(lines[used + 1], Len(AnswerPrefix) + 1, Len(lines[used + 1]))),
        used |-> used + 1]
  ELSE PopAnswer(lines, used + 1)

MaxLines == 3

(* the lines of an answers file *)
Lines ==
  {<<"a", "n", "s", "w", "e", "r", ":", " ", "u">>,
   <<"a", "n", "s", "w", "e", "r", ":", "3", " ">>,
   <<"a", "n", "s", "w", "e", "r", ":">>,
   <<"n", "o", "t", "e">>}

AnswerLists == UNION {[1..n -> Lines] : n \in 0..MaxLines}

TestDocs == {DocQuestion, DocDefault, DocDisabled, DocBranch, DocRange, DocForce, DocNotice}

TestStores == {EmptyDict, Leaves(<<"o", "s">> :> VStr(<<"u">>))}

InitTest ==
  /\ config \in TestDocs
  /\ settings \in TestStores
  /\ answers \in {[lines |-> l, used |-> 0] : l \in AnswerLists}
  /\ pc = "test"
  /\ item = NoItem
  /\ visited = <<>>
  /\ scans = 0
  /\ passes = 0
  /\ last = Op("init", <<>>, None, TRUE)
  /\ prev = [valid |-> FALSE, item |-> NoItem]
  /\ fresh = config

TestScanned(r) ==
  /\ config' = r.cfg
  /\ settings' = r.d
  /\ visited' = r.vis
  /\ item' = r.item
  /\ pc' = CASE r.out = "item" -> "asked"
             [] r.out = "none" -> "done"
             [] r.out = "retry" -> "walk"
             [] OTHER -> "error"
  /\ last' = Op("next", <<>>, None, r.out # "error")

(* test: item = self.next(), and the break where it is None *)
TestNext ==
  /\ pc = "test"
  /\ TestScanned(Scan(config, settings, MaxPasses))
  /\ scans' = scans + 1
  /\ UNCHANGED <<passes, prev, fresh, answers>>

TestSet(reply, r) ==
  /\ settings' = r.d
  /\ pc' = IF r.ok THEN "test" ELSE "exit"
  /\ last' = Op("set", <<>>, reply, r.ok)

TestReplied(pop) ==
  /\ answers' = [answers EXCEPT !.used = pop.used]
  /\ IF pop.found THEN TestSet(VStr(pop.reply), ItemSet(item.config, VStr(pop.reply), settings))
     ELSE /\ pc' = "exit"
          /\ last' = Op("noanswer", <<>>, None, FALSE)
          /\ UNCHANGED settings

(* test: the reply taken from answers and item.set(reply); any exception   *)
(* ends the run with sys.exit(1)                                           *)
TestReply ==
  /\ pc = "asked"
  /\ TestReplied(PopAnswer(answers.lines, answers.used))
  /\ UNCHANGED <<config, item, visited, scans, passes, prev, fresh>>

NextTest == TestNext \/ TestReply

TestSpec == InitTest /\ [][NextTest]_vars

(* ------------------------- get_fqkey, on its own ---------------------- *)

(* node configurations: with and without key, section, parameterize *)
FqNodes ==
  {QStr(<<"k">>),
   Question([type |-> VStr(tStr)]),
   Question([key |-> VStr(<<"k">>), section |-> VStr(<<"s">>)]),
   Question([key |-> VStr(<<"a", ".", "b">>), section |-> VStr(<<"s">>)]),
   Question([key |-> VStr(<<"k">>), parameterize |-> VStr(<<"c">>)]),
   Question([key |-> VStr(<<"k">>), parameterize |-> VStr(<<"a">>)]),
   Question([key |-> VStr(<<"k">>), section |-> VStr(<<"s">>), parameterize |-> VStr(<<"c">>)]),
   Question([key |-> VStr(<<"a", ".", "b">>), section |-> VStr(<<"s">>),
             parameterize |-> VStr(<<"x">>)])}

(* the explicit key argument: None, or a key *)
FqKeys == {None, VStr(<<"o", "s">>), VStr(<<"t", ".", "x">>)}

MaxFqCalls == 2

InitFq ==
  /\ config \in {<<n>> : n \in FqNodes}
  /\ settings \in Stores
  /\ pc = "fqkey"
  /\ item = NoItem
  /\ visited = <<>>
  /\ scans = 0
  /\ passes = 0
  /\ last = Op("init", <<>>, None, TRUE)
  /\ prev = [valid |-> FALSE, item |-> NoItem]
  /\ fresh = config
  /\ answers = NoAnswers

FqCalled(key, byitem, byscan) ==
  last' = Op("fqkey", <<>>, [key |-> key, item |-> byitem, scan |-> byscan], byitem.ok)

(* item.get_fqkey(key) and get_fqkey(item_config, key) *)
FqCall ==
  /\ pc = "fqkey"
  /\ scans < MaxFqCalls
  /\ \E key \in FqKeys :
       FqCalled(key, GetFqkey(config[1], key, settings), ScanGetFqkey(config[1], key, settings))
  /\ scans' = scans + 1
  /\ UNCHANGED <<config, settings, pc, item, visited, passes, prev, fresh, answers>>

NextFq == FqCall

FqSpec == InitFq /\ [][NextFq]_vars

(* ------------------------------ the claims ---------------------------- *)
(* The terms the claims are stated in.                                     *)

(* the pass just made reached the node at this path *)
Seen(path) == \E n \in 1..Len(visited) : visited[n] = path

(* the last step was a pass of the walk that left the loop of next() *)
Returned == last.op = "pass" /\ pc \in {"item", "none", "error"}

(* the nodes of a document, at any depth *)
RECURSIVE NodeSet(_)
NodeSet(items) ==
  UNION {{items[n]} \cup (IF items[n].interview.t = "list" THEN NodeSet(items[n].interview.l)
                          ELSE {}) : n \in 1..Len(items)}

(* a notice or question with a key whose fully qualified key the store     *)
(* lacks, enabled and under enabled branches whose match conditions hold   *)
RECURSIVE Pending(_, _)
PendingNode(cfg, d) ==
  /\ ~PyBool(CfgGet(cfg, "disabled", VBool(FALSE)))
  /\ \/ /\ cfg.kind.s \in {kNotice, kQuestion}
        /\ Has(cfg, "key")
        /\ GetFqkey(cfg, None, d).ok
        /\ ~Contains(d, GetFqkey(cfg, None, d).key)
     \/ /\ cfg.kind.s = kBranch
        /\ BranchMatch(cfg, d) = "enter"
        /\ cfg.interview.t = "list"
        /\ Pending(cfg.interview.l, d)

Pending(items, d) == \E n \in 1..Len(items) : PendingNode(items[n], d)

(* C1: when Item.set succeeds on the item the scan returned, the store     *)
(* holds a value under the item's fully qualified key, the key the scan    *)
(* tests for absence, also for a node with section or parameterize.        *)
C1_CommitUnderFqkey ==
  (last.op = "set" /\ last.ok) =>
    /\ GetFqkey(item.config, None, settings).ok
    /\ Contains(settings, GetFqkey(item.config, None, settings).key)

(* C2: whenever next() returns none, no enabled notice or question with a  *)
(* key, under enabled branches whose match conditions hold in the store at *)
(* return time, has its fully qualified key absent from the store.         *)
C2_NoneMeansResolved == (Returned /\ pc = "none") => ~Pending(config, settings)

(* C3: an Item.set that raises leaves the store as it was before the call. *)
C3_FailedSetKeepsStore == (last.op = "set" /\ ~last.ok) => settings = last.before

(* a failed check of the range, after a conversion that succeeded *)
C3_Witness ==
  /\ last.op = "set" /\ ~last.ok
  /\ config = DocRange
  /\ last.arg = VStr(<<"2">>)
  /\ settings = last.before

(* the terms of C4: an acyclically authored document *)
Deletes(reset, key) ==
  \/ Has(reset, "reset_keys") /\ PyInList(VStr(key), reset.reset_keys.l)
  \/ Has(reset, "reset_key_regexp") /\ ReMatch(reset.reset_key_regexp.s, key)

Acyclic(items) ==
  /\ \A n \in NodeSet(items) : ~Has(n, "force")
  /\ \A r, c \in NodeSet(items) :
       (r.kind.s = kReset /\ c.kind.s \in AutoSetKinds /\ Has(c, "key")) => ~Deletes(r, c.key.s)
  /\ \A n \in NodeSet(items) :
       (n.kind.s = kInclude /\ Has(n, "path") /\ n.path.s \in DOMAIN Files) =>
         \A m \in NodeSet(Files[n.path.s]) : m.kind.s # kInclude

(* C4: for an acyclically authored document the chain of restarts of one   *)
(* call of next() is finite.  A pass is a function of the document and the *)
(* store, so a pass that ends in a restart and leaves both as it found     *)
(* them is followed by the same pass for ever: no such pass exists.        *)
C4_NoRepeatedRestart ==
  (Acyclic(config) /\ last.op = "pass" /\ pc = "walk") =>
    ~(config = last.cfg /\ settings = last.before)

(* C5: when the caller calls next() again without Item.set in between, the *)
(* second scan returns the item of the same document node as the first.    *)
C5_SameItemRecurs ==
  (prev.valid /\ Returned) => (pc = "item" /\ item.at = prev.item.at)

(* the terms of C6: Scenario A, a document of one enabled question with a  *)
(* key, of type str, without section, parameterize or force                *)
ScenarioA(items) ==
  /\ Len(items) = 1
  /\ items[1].kind = VStr(kQuestion)
  /\ ~PyBool(CfgGet(items[1], "disabled", VBool(FALSE)))
  /\ Has(items[1], "key")
  /\ items[1].type = VStr(tStr)
  /\ ~Has(items[1], "section") /\ ~Has(items[1], "parameterize") /\ ~Has(items[1], "force")

(* C6: in Scenario A a scan from a store that lacks k returns the question *)
(* and leaves the store alone; an Item.set that commits the answer v makes *)
(* get(k) equal v (the default, where v is empty and a default is          *)
(* declared); a scan from a store that holds k returns none and leaves the *)
(* store alone.                                                            *)
C6_ScenarioA ==
  ScenarioA(config) =>
    /\ (Returned /\ Get(last.before, config[1].key.s, NoValue) = NoValue) =>
         (pc = "item" /\ item.at = <<1>> /\ item.config = config[1] /\ settings = last.before)
    /\ (last.op = "set" /\ last.ok) =>
         Get(settings, config[1].key.s, NoValue) =
           (IF Has(config[1], "default") /\ last.arg = VStr(<<>>) THEN config[1].default
            ELSE last.arg)
    /\ (Returned /\ Get(last.before, config[1].key.s, NoValue) # NoValue) =>
         (pc = "none" /\ settings = last.before)

(* the second scan of a session that answered "x y", a value no saved      *)
(* store holds                                                             *)
C6_Witness ==
  /\ ScenarioA(config)
  /\ Returned /\ pc = "none"
  /\ scans = 2
  /\ Get(settings, config[1].key.s, NoValue) = VStr(<<"x", " ", "y">>)

(* C7: a pass that reaches a reset node with reset_key_regexp R leaves no  *)
(* key R matches in the store, and every other key with its value.         *)
C7_ResetRegexpDeletes ==
  (/\ last.op = "pass" /\ Seen(<<1>>)
   /\ last.cfg[1].kind = VStr(kReset)
   /\ Has(last.cfg[1], "reset_key_regexp")) =>
    \A n \in 1..Len(Keys(last.before)) :
      IF ReMatch(last.cfg[1].reset_key_regexp.s, Keys(last.before)[n])
      THEN ~Contains(settings, Keys(last.before)[n])
      ELSE Get(settings, Keys(last.before)[n], NoValue)
             = Get(last.before, Keys(last.before)[n], NoValue)

(* the terms of C8: a document of enabled update nodes of type int with    *)
(* one key and one value                                                   *)
UpdatesOnly(items) ==
  /\ Len(items) > 0
  /\ \A n \in 1..Len(items) :
       /\ items[n].kind = VStr(kUpdate)
       /\ ~PyBool(CfgGet(items[n], "disabled", VBool(FALSE)))
       /\ items[n].type = VStr(tInt)
       /\ Has(items[n], "key") /\ items[n].key = items[1].key
       /\ CfgGet(items[n], "value", VInt(1)) = CfgGet(items[1], "value", VInt(1))

(* C8: one call of next() on n update nodes with one key and value d, from *)
(* a store in which the key holds c (0 when absent), returns with the key  *)
(* holding c + n*d; and it does return when the key has no dot and holds   *)
(* an integer or nothing.                                                  *)
C8_UpdatesAdd ==
  (UpdatesOnly(config) /\ Returned) =>
    /\ pc = "none" =>
         Get(settings, config[1].key.s, NoValue) =
           VInt(PyInt(Get(last.before, config[1].key.s, VInt(0))).n
                + Len(config) * CfgGet(config[1], "value", VInt(1)).n)
    /\ (/\ ~HasChar(config[1].key.s, Sep)
        /\ Get(last.before, config[1].key.s, VInt(0)).t = "int") => pc = "none"

(* Scenario B: three nodes with value 1 on an empty store give 3 *)
C8_Witness ==
  /\ config = DocUpdate3
  /\ Returned /\ pc = "none"
  /\ last.before = EmptyDict
  /\ Get(settings, <<"c">>, NoValue) = VInt(3)

(* the terms of C9: a pass whose first node is an enabled branch with      *)
(* match_key and match_values, without match_not_values and without key    *)
MatchBranchFirst ==
  /\ last.op = "pass"
  /\ last.cfg[1].kind = VStr(kBranch)
  /\ ~PyBool(CfgGet(last.cfg[1], "disabled", VBool(FALSE)))
  /\ Has(last.cfg[1], "match_key") /\ Has(last.cfg[1], "match_values")
  /\ ~Has(last.cfg[1], "match_not_values") /\ ~Has(last.cfg[1], "key")

(* C9, as stated: the branch is entered if and only if the value the store *)
(* holds for K is an element of V.                                         *)
C9_EnteredIffValueOfKey ==
  MatchBranchFirst =>
    (Seen(<<1, 1>>) <=>
       PyInList(Get(last.before, last.cfg[1].match_key.s, NoValue),
                last.cfg[1].match_values.l))

(* C9, amended: the branch is entered if and only if the value the store   *)
(* holds for the fully qualified key of K - get_fqkey(K): K prefixed by    *)
(* the branch's section, suffixed by the counter of its parameterize - is  *)
(* an element of V.                                                        *)
C9_EnteredIffValueOfFqkey ==
  (MatchBranchFirst /\ GetFqkey(last.cfg[1], last.cfg[1].match_key, last.before).ok) =>
    (Seen(<<1, 1>>) <=>
       PyInList(Get(last.before,
                    GetFqkey(last.cfg[1], last.cfg[1].match_key, last.before).key, NoValue),
                last.cfg[1].match_values.l))

(* a branch with a section, entered on the value held under section.K *)
C9_Witness ==
  /\ MatchBranchFirst
  /\ Has(last.cfg[1], "section")
  /\ Seen(<<1, 1>>)
  /\ ~Contains(last.before, last.cfg[1].match_key.s)

(* the terms of C10: a proper prefix of the path holds a value that is no  *)
(* mapping                                                                 *)
LeafOnPath(d, keys) ==
  \E n \in 1..(Len(keys) - 1) :
    Find(d, SubSeq(keys, 1, n)).ok /\ ~IsDict(Find(d, SubSeq(keys, 1, n)).v)

(* C10: settings[key] = value through a path with a leaf on it raises and  *)
(* leaves the store as it was.                                             *)
C10_ConflictFails ==
  (last.op = "setitem" /\ LeafOnPath(last.before, Split(last.key, Sep))) =>
    (~last.ok /\ settings = last.before)

(* set("a.b", 1) followed by set("a.b.c", 2) *)
C10_Witness ==
  /\ last.op = "setitem" /\ ~last.ok
  /\ last.key = <<"a", ".", "b", ".", "c">>
  /\ last.arg = VInt(2)
  /\ Get(last.before, <<"a", ".", "b">>, NoValue) = VInt(1)
  /\ scans = 2

(* C11: after a successful settings[k] = v of a value v that is no mapping, *)
(* get(k) returns v, k is in the store, and items() yields the pair (k, v) *)
(* once and no other pair with the key k.                                  *)
C11_SetThenRead ==
  (last.op = "setitem" /\ last.ok /\ ~IsDict(last.arg)) =>
    /\ Get(settings, last.key, NoValue) = last.arg
    /\ Contains(settings, last.key)
    /\ Cardinality({n \in 1..Len(Items(settings)) : Items(settings)[n].k = last.key}) = 1
    /\ \E n \in 1..Len(Items(settings)) : Items(settings)[n] = [k |-> last.key, v |-> last.arg]

(* C12: Item.set of an int item whose one constraint is the range          *)
(* "lo-hi:step" commits the integer v if and only if lo <= v <= hi and     *)
(* (v - lo) mod step = 0, and otherwise raises and leaves the store as it  *)
(* was.                                                                    *)
C12_RangeAccepts ==
  last.op = "set" =>
    \A c \in RangeCases, n \in -1..MaxAnswer :
      (config = RangeDoc(c.rng) /\ last.arg = VStr(IntToText(n))) =>
        IF c.lo <= n /\ n <= c.hi /\ (n - c.lo) % c.step = 0
        THEN last.ok /\ Get(settings, <<"k">>, NoValue) = VInt(n)
        ELSE ~last.ok /\ settings = last.before

(* range "1-10:2": 9 accepted after 10 was rejected *)
C12_Witness ==
  /\ last.op = "set" /\ last.ok
  /\ config = RangeDoc(<<"1", "-", "1", "0", ":", "2">>)
  /\ last.arg = VStr(<<"9">>)
  /\ last.before = EmptyDict
  /\ scans = 2
  /\ Get(settings, <<"k">>, NoValue) = VInt(9)

(* the terms of C13: a node check() is to reject, and the nodes of a       *)
(* document with those of the documents it includes                        *)
BadNode(n) ==
  \/ n.kind.t # "str"
  \/ n.kind.s \notin ItemKinds
  \/ /\ n.kind.s \in {kQuestion, kSet}
     /\ (~Has(n, "key") \/ ~Has(n, "title") \/ ~Has(n, "text"))

WithIncluded(items) ==
  NodeSet(items) \cup
    UNION {NodeSet(Files[n.path.s]) :
             n \in {m \in NodeSet(items) : Has(m, "path") /\ m.path.s \in DOMAIN Files}}

(* C13: check() raises for every document in which some node, at any depth *)
(* and in included documents, has a missing or unrecognized kind, or is a  *)
(* question or set node without key, title or text.                        *)
C13_CheckRaises ==
  (last.op = "check" /\ \E n \in WithIncluded(last.cfg) : BadNode(n)) => ~last.ok

AnswerLinesOf(lines) == SelectSeq(lines, LAMBDA l : StartsWith(l, AnswerPrefix))

(* C15: in test() with an answer list the i-th item the scan returns is    *)
(* set with the text of the i-th line that starts with "answer:" (what     *)
(* follows the prefix, stripped), the other lines being skipped; and where *)
(* no such line is left for an item the run ends in error with the store   *)
(* as it was.                                                              *)
C15_AnswersInOrder ==
  /\ last.op = "set" =>
       /\ scans <= Len(AnswerLinesOf(answers.lines))
       /\ last.arg = VStr(Strip(SubSeq(AnswerLinesOf(answers.lines)[scans],
                                       Len(AnswerPrefix) + 1,
                                       Len(AnswerLinesOf(answers.lines)[scans]))))
       /\ Len(AnswerLinesOf(SubSeq(answers.lines, 1, answers.used))) = scans
  /\ last.op = "noanswer" =>
       /\ pc = "exit" /\ settings = last.before
       /\ Len(AnswerLinesOf(answers.lines)) = scans - 1

(* the second item set with the second answer, a line without the prefix   *)
(* skipped on the way                                                      *)
C15_Witness ==
  /\ last.op = "set" /\ last.ok
  /\ scans = 2
  /\ answers.used = 3
  /\ last.arg = VStr(<<"3">>)
  /\ \E n \in 1..2 : ~StartsWith(answers.lines[n], AnswerPrefix)

(* the terms of C16: the key the claim describes *)
FqBase(cfg, key) == IF key = None THEN cfg.key.s ELSE key.s

FqPrefixed(cfg, base) ==
  IF Has(cfg, "section") /\ \A n \in 1..Len(base) : base[n] # "."
  THEN cfg.section.s \o <<".">> \o base
  ELSE base

(* C16: Item.get_fqkey and the get_fqkey of next() give the same outcome   *)
(* for the same node, key argument and store; and the key is the explicit  *)
(* key or the node's, with "section." in front only when it has no dot and *)
(* section is declared, and ".counter" behind (the parameterize setting as *)
(* an integer, 0 when absent) when parameterize is declared.               *)
C16_SameFqkey ==
  last.op = "fqkey" =>
    /\ last.arg.item = last.arg.scan
    /\ last.ok =>
         last.arg.item.key =
           FqPrefixed(config[1], FqBase(config[1], last.arg.key)) \o
             (IF Has(config[1], "parameterize")
              THEN <<".">> \o
                   IntToText(PyInt(Get(settings, config[1].parameterize.s, VInt(0))).n)
              ELSE <<>>)

(* section and parameterize both declared, the counter held as 1 *)
C16_Witness ==
  /\ last.op = "fqkey" /\ last.ok
  /\ last.arg.key = None
  /\ last.arg.scan.key = <<"s", ".", "k", ".", "1">>

(* the terms of C17 and C18: the nodes ahead of the i-th node of the       *)
(* document of the last pass are branches without key, notices and         *)
(* questions, at any depth, so the i-th node is reached with the store the *)
(* pass started from                                                       *)
ReachedUnchanged(i) ==
  /\ last.op = "pass"
  /\ Seen(<<i>>)
  /\ \A n \in NodeSet(SubSeq(last.cfg, 1, i - 1)) :
       \/ n.kind.s \in {kNotice, kQuestion}
       \/ n.kind.s = kBranch /\ ~Has(n, "key")

(* a matched branch with a key whose fully qualified key the store lacks,  *)
(* or with force                                                           *)
BranchToCommit(cfg, d) ==
  /\ cfg.kind = VStr(kBranch)
  /\ Has(cfg, "key")
  /\ BranchMatch(cfg, d) = "enter"
  /\ GetFqkey(cfg, None, d).ok
  /\ \/ ~Contains(d, GetFqkey(cfg, None, d).key)
     \/ PyBool(CfgGet(cfg, "force", VBool(FALSE)))

(* C17, the commit: a matched branch with a key that the scan reaches      *)
(* commits its value if and only if the fully qualified key is absent or   *)
(* force is set.                                                           *)
C17_CommitIffNeeded ==
  \A i \in 1..Len(last.cfg) :
    (ReachedUnchanged(i) /\ last.cfg[i].kind = VStr(kBranch) /\ Has(last.cfg[i], "key")
       /\ BranchMatch(last.cfg[i], last.before) = "enter"
       /\ GetFqkey(last.cfg[i], None, last.before).ok) =>
      IF BranchToCommit(last.cfg[i], last.before)
      THEN last.ok => Contains(settings, last.cfg[i].key.s)
      ELSE Get(settings, last.cfg[i].key.s, NoValue)
             = Get(last.before, last.cfg[i].key.s, NoValue)

(* C17: when the scan reaches a matched branch with a key it commits the   *)
(* value if and only if the fully qualified key is absent or force is set, *)
(* and after such a commit the pass ends in a restart, nothing after the   *)
(* branch having been visited.                                             *)
C17_BranchCommitRestarts ==
  /\ C17_CommitIffNeeded
  /\ \A i \in 1..Len(last.cfg) :
       (ReachedUnchanged(i) /\ BranchToCommit(last.cfg[i], last.before) /\ last.ok) =>
         (pc = "walk" /\ visited[Len(visited)] = <<i>>)

(* C18: a pass that reaches an enabled reset node ends in a restart, with  *)
(* or without a key on the node, and visits nothing after the node.        *)
C18_ResetRestarts ==
  \A i \in 1..Len(last.cfg) :
    (last.op = "pass" /\ Seen(<<i>>) /\ last.cfg[i].kind = VStr(kReset)) =>
      (pc = "walk" /\ visited[Len(visited)] = <<i>>)

(* the terms of C19: a list is given and the value fails its test - it is  *)
(* no element of match_values, or it is an element of match_not_values     *)
FailsMembership(cfg, match_value) ==
  \/ Has(cfg, "match_values") /\ ~PyInList(match_value, cfg.match_values.l)
  \/ Has(cfg, "match_not_values") /\ PyInList(match_value, cfg.match_not_values.l)

(* a branch with match_key and no key of its own, whose interview starts   *)
(* with an enabled node, reached at position i of the document             *)
MatchBranchAt(i) ==
  /\ ReachedUnchanged(i)
  /\ last.cfg[i].kind = VStr(kBranch)
  /\ Has(last.cfg[i], "match_key") /\ ~Has(last.cfg[i], "key")
  /\ GetFqkey(last.cfg[i], last.cfg[i].match_key, last.before).ok
  /\ last.cfg[i].interview.l # <<>>
  /\ ~PyBool(CfgGet(last.cfg[i].interview.l[1], "disabled", VBool(FALSE)))

(* C19: a branch with match_key is skipped if and only if a list is given  *)
(* and the store value fails its membership test; with neither list it is  *)
(* entered, with both it is skipped when either test fails.                *)
C19_SkippedOnFailedTest ==
  \A i \in 1..Len(last.cfg) :
    MatchBranchAt(i) =>
      (Seen(<<i, 1>>) <=>
         ~FailsMembership(last.cfg[i],
                          Get(last.before,
                              GetFqkey(last.cfg[i], last.cfg[i].match_key, last.before).key,
                              NoValue)))

(* the terms of C20: the last step was item.set("") on a node with         *)
(* required true and no default                                            *)
RequiredSetEmpty ==
  /\ last.op = "set"
  /\ last.arg = VStr(<<>>)
  /\ PyBool(CfgGet(item.config, "required", VBool(FALSE)))
  /\ ~Has(item.config, "default")

(* C20: Item.set of an empty value on a node with required true and no     *)
(* default raises and commits nothing, whatever the type of the node.      *)
C20_RequiredRejectsEmpty == RequiredSetEmpty => (~last.ok /\ settings = last.before)

(* the terms of C21: the first constraint a node declares, in the order    *)
(* values, regexp, range, and whether the converted value v passes it      *)
FirstConstraint(cfg) ==
  IF Has(cfg, "values") THEN "values"
  ELSE IF Has(cfg, "regexp") THEN "regexp"
  ELSE IF Has(cfg, "range") THEN "range"
  ELSE "none"

PassesFirst(cfg, v) ==
  CASE FirstConstraint(cfg) = "values" -> PyInList(v, cfg.values.l)
    [] FirstConstraint(cfg) = "regexp" -> v.t = "str" /\ ReMatch(cfg.regexp.s, v.s)
    [] FirstConstraint(cfg) = "range" -> RangeOk(cfg.type.s, cfg.range.s, <<v>>)
    [] OTHER -> TRUE

(* C21: Item.set of a value that converts commits it if and only if it     *)
(* passes the first constraint the node declares in the order values,      *)
(* regexp, range - whatever the later constraints and a satisfied required *)
(* flag say - and otherwise raises and leaves the store as it was.         *)
C21_FirstConstraintOnly ==
  (last.op = "set" /\ Convert(config[1].type.s, last.arg).ok) =>
    IF PassesFirst(ItemInit(config[1]).cfg, Convert(config[1].type.s, last.arg).v)
    THEN last.ok /\ Get(settings, <<"k">>, NoValue) = Convert(config[1].type.s, last.arg).v
    ELSE ~last.ok /\ settings = last.before

(* 2 is an allowed value and is committed, outside the range "1-5:2" *)
C21_Witness ==
  /\ last.op = "set" /\ last.ok
  /\ Has(config[1], "values") /\ Has(config[1], "range")
  /\ last.arg = VStr(<<"2">>)
  /\ ~RangeOk(tInt, config[1].range.s, <<VInt(2)>>)
  /\ Get(settings, <<"k">>, NoValue) = VInt(2)

(* the terms of C22: the places of a document's nodes, the node at a       *)
(* place, and the places of the include nodes that have a path             *)
RECURSIVE TreePaths(_)
TreePaths(items) ==
  UNION {{<<n>>} \cup (IF items[n].interview.t = "list"
                       THEN {<<n>> \o q : q \in TreePaths(items[n].interview.l)}
                       ELSE {}) : n \in 1..Len(items)}

RECURSIVE NodeAt(_, _)
NodeAt(items, path) ==
  IF Len(path) = 1 THEN items[path[1]]
  ELSE NodeAt(items[path[1]].interview.l, Tail(path))

IncludePaths(items) ==
  {q \in TreePaths(items) : NodeAt(items, q).kind = VStr(kInclude) /\ Has(NodeAt(items, q), "path")}

(* the branch an include node of a file that loads is rewritten into *)
IncludedBranch(n, inc) ==
  /\ n.kind = VStr(kBranch)
  /\ n.name = VStr(<<"i", "n", "c", "l", "u", "d", "e", "d", "-">> \o Fmt(inc.path))
  /\ inc.path.s \in DOMAIN Files => n.interview = VList(Files[inc.path.s])

(* C22: a pass that reaches an include node with a path ends there, leaves *)
(* in its place a branch that holds the included items and, the file       *)
(* loaded, restarts the walk; an include node no pass has reached is left  *)
(* as it was; and no step makes a node an include node, so that a node     *)
(* once expanded is a branch in every later pass and every later call of   *)
(* next() and its file is loaded once.                                     *)
C22_IncludeOnce ==
  /\ IncludePaths(config) \subseteq IncludePaths(last.cfg)
  /\ IncludePaths(last.cfg) \subseteq IncludePaths(fresh)
  /\ \A q \in IncludePaths(fresh) \ IncludePaths(config) :
       q \in TreePaths(config) /\ IncludedBranch(NodeAt(config, q), NodeAt(fresh, q))
  /\ last.op = "pass" =>
       \A q \in IncludePaths(last.cfg) :
         IF Seen(q)
         THEN /\ visited[Len(visited)] = q
              /\ q \notin IncludePaths(config)
              /\ NodeAt(last.cfg, q).path.s \in DOMAIN Files => pc = "walk"
         ELSE NodeAt(config, q) = NodeAt(last.cfg, q)

(* a second call of next() has walked through the branch that the first    *)
(* call put in the place of the include node, and has changed nothing      *)
C22_Witness ==
  /\ last.op = "pass" /\ scans = 2 /\ passes = 1
  /\ IncludePaths(fresh) = {<<1>>}
  /\ IncludePaths(config) = {}
  /\ last.cfg = config
  /\ Seen(<<1, 1>>)
  /\ config[1].interview = VList(Files[fresh[1].path.s])

(* the terms of C23: the pass has reached, at the top of the document, an  *)
(* enabled set node with force true                                        *)
ForcedSetAt(i) ==
  /\ last.op = "pass"
  /\ Seen(<<i>>)
  /\ last.cfg[i].kind = VStr(kSet)
  /\ PyBool(CfgGet(last.cfg[i], "force", VBool(FALSE)))

(* C23: a pass that reaches an enabled set node with force true commits    *)
(* the node's value and ends in a restart, at that node; and from the      *)
(* second pass on the pass leaves the document and the store as it found   *)
(* them, so that the next pass is the same pass again and next() does not  *)
(* return.                                                                 *)
C23_ForcedSetLoops ==
  \A i \in 1..Len(last.cfg) :
    ForcedSetAt(i) =>
      /\ pc = "walk"
      /\ visited[Len(visited)] = <<i>>
      /\ Get(settings, last.cfg[i].key.s, NoValue) = last.cfg[i].value
      /\ passes >= 2 => (settings = last.before /\ config = last.cfg)

(* the forced set node after an answered question: the fourth pass of one  *)
(* call of next() restarts as the others did                               *)
C23_Witness ==
  /\ ForcedSetAt(2)
  /\ passes = MaxPasses
  /\ pc = "walk"
  /\ last.cfg[1].kind = VStr(kQuestion)
  /\ settings = last.before

(* the terms of C24: an enabled question with a key and force true, and    *)
(* the place of the one a scan from the store d reaches in the loaded      *)
(* document - its first node, or the first node of its first branch when   *)
(* the value of match_key is one of match_values (<<>>: none)              *)
ForcedQuestion(n) ==
  /\ n.kind = VStr(kQuestion)
  /\ Has(n, "key")
  /\ PyBool(CfgGet(n, "force", VBool(FALSE)))
  /\ ~PyBool(CfgGet(n, "disabled", VBool(FALSE)))

ForcedReached(items, d) ==
  IF ForcedQuestion(items[1]) THEN <<1>>
  ELSE IF /\ items[1].kind = VStr(kBranch)
          /\ ~Has(items[1], "key") /\ ~PyBool(CfgGet(items[1], "disabled", VBool(FALSE)))
          /\ Has(items[1], "match_key") /\ Has(items[1], "match_values")
          /\ ~Has(items[1], "match_not_values")
          /\ PyInList(Get(d, items[1].match_key.s, NoValue), items[1].match_values.l)
          /\ items[1].interview.t = "list" /\ items[1].interview.l # <<>>
          /\ ForcedQuestion(items[1].interview.l[1])
  THEN <<1, 1>>
  ELSE <<>>

(* C24: a scan that reaches an enabled question with force true returns    *)
(* it, with or without a value under its key, and visits nothing after it; *)
(* so where the loaded document makes the scan reach such a question,      *)
(* every scan returns that question, none returns a later node and none    *)
(* returns None.                                                           *)
C24_ForcedQuestionRecurs ==
  last.op = "pass" =>
    /\ \A q \in TreePaths(last.cfg) :
         (Seen(q) /\ ForcedQuestion(NodeAt(last.cfg, q))) =>
           (pc = "item" /\ item.at = q /\ visited[Len(visited)] = q)
    /\ ForcedReached(fresh, last.before) # <<>> =>
         (pc = "item" /\ item.at = ForcedReached(fresh, last.before))

(* the third scan of a session returns the forced question again, its key  *)
(* holding the answer given after the second                               *)
C24_Witness ==
  /\ last.op = "pass" /\ pc = "item" /\ scans = MaxScans
  /\ ForcedQuestion(item.config)
  /\ Get(last.before, item.config.key.s, NoValue) = VStr(<<"2">>)
  /\ Len(fresh) > 1 /\ fresh[2].kind = VStr(kQuestion)
  /\ ~Seen(<<2>>)

(* the terms of C25: a document of questions with keys and of branches     *)
(* without key, none with section, parameterize or force; a branch that    *)
(* is matched - no match_key, or no given list whose test the value of     *)
(* match_key fails; and the place of the first enabled question, in        *)
(* depth-first order, whose key the store lacks and whose ancestors are    *)
(* enabled and matched (<<>>: none)                                        *)
PlainDoc(items) ==
  \A n \in NodeSet(items) :
    /\ ~Has(n, "section") /\ ~Has(n, "parameterize") /\ ~Has(n, "force")
    /\ \/ n.kind = VStr(kQuestion) /\ Has(n, "key")
       \/ n.kind = VStr(kBranch) /\ ~Has(n, "key")

Matched(cfg, d) ==
  Has(cfg, "match_key") => ~FailsMembership(cfg, Get(d, cfg.match_key.s, NoValue))

RECURSIVE FirstOpen(_, _, _, _)
FirstOr(found, items, i, walkpath, d) ==
  IF found # <<>> THEN found ELSE FirstOpen(items, i + 1, walkpath, d)

FirstOpen(items, i, walkpath, d) ==
  IF i > Len(items) THEN <<>>
  ELSE IF PyBool(CfgGet(items[i], "disabled", VBool(FALSE)))
  THEN FirstOpen(items, i + 1, walkpath, d)
  ELSE IF items[i].kind = VStr(kQuestion)
  THEN IF ~Contains(d, items[i].key.s) THEN walkpath \o <<i>>
       ELSE FirstOpen(items, i + 1, walkpath, d)
  ELSE IF Matched(items[i], d) /\ items[i].interview.t = "list"
  THEN FirstOr(FirstOpen(items[i].interview.l, 1, walkpath \o <<i>>, d), items, i, walkpath, d)
  ELSE FirstOpen(items, i + 1, walkpath, d)

(* C25: on a document of questions with keys and branches without key     *)
(* (no section, parameterize or force) a scan leaves the store as it was   *)
(* and returns the first enabled question, in depth-first order, whose key *)
(* the store lacks and whose ancestor branches are enabled and matched; it *)
(* returns None if and only if there is no such question.                  *)
C25_FirstOpenQuestion ==
  (last.op = "pass" /\ PlainDoc(last.cfg)) =>
    /\ settings = last.before
    /\ IF FirstOpen(last.cfg, 1, <<>>, last.before) = <<>> THEN pc = "none"
       ELSE pc = "item" /\ item.at = FirstOpen(last.cfg, 1, <<>>, last.before)

(* the terms of C26: the pass has reached the update node at the top of    *)
(* the document, the one update node of its key, and has not raised        *)
UpdateAt(i) ==
  /\ last.op = "pass" /\ last.ok
  /\ Seen(<<i>>)
  /\ last.cfg[i].kind = VStr(kUpdate)
  /\ \A n \in 1..Len(last.cfg) :
       (last.cfg[n].kind = VStr(kUpdate) /\ last.cfg[n].key = last.cfg[i].key) => n = i

(* C26: every pass that reaches an update node - the first pass of a call  *)
(* of next() or a pass after a restart, the key present or not - leaves    *)
(* under the key the count it found (0 when absent) plus the node's value. *)
C26_UpdateEveryPass ==
  \A i \in 1..Len(last.cfg) :
    UpdateAt(i) =>
      Get(settings, last.cfg[i].key.s, NoValue) =
        VInt(PyInt(Get(last.before, last.cfg[i].key.s, VInt(0))).n
             + PyInt(CfgGet(last.cfg[i], "value", VInt(1))).n)

(* one call of next() from the empty store: the set node restarts the walk *)
(* and the second pass counts again, so the counter is 2 when the question *)
(* is returned                                                             *)
C26_Witness ==
  /\ UpdateAt(1)
  /\ fresh = DocUpdateSet
  /\ scans = 1 /\ passes = 2 /\ pc = "item"
  /\ last.before = Leaves(<<"c">> :> VInt(1) @@ <<"a">> :> VInt(1))
  /\ Get(settings, <<"c">>, NoValue) = VInt(2)

(* the terms of C27: the paths (segment by segment) of the leaves of a     *)
(* mapping, a path at or below another, and a key text that has another as *)
(* a proper dotted prefix                                                  *)
RECURSIVE LeafPaths(_)
LeafPaths(v) ==
  UNION {IF IsDict(v.d[k]) THEN {<<k>> \o q : q \in LeafPaths(v.d[k])} ELSE {<<k>>} :
         k \in DOMAIN v.d}

AtOrBelow(keys, path) == Len(path) >= Len(keys) /\ SubSeq(path, 1, Len(keys)) = keys

DottedBelow(key, other) ==
  Len(other) > Len(key) + 1 /\ SubSeq(other, 1, Len(key) + 1) = key \o <<Sep>>

(* C27: a settings[k] = v that succeeds leaves every leaf of the store     *)
(* that is neither at k nor below k with the value it had; and where k     *)
(* holds a mapping the assignment succeeds, k holds v, and keys() yields   *)
(* no key below k any more.                                                *)
C27_SetFrame ==
  last.op = "setitem" =>
    /\ last.ok =>
         \A q \in LeafPaths(last.before) :
           ~AtOrBelow(Split(last.key, Sep), q) =>
             (Find(settings, q).ok /\ Find(settings, q).v = Find(last.before, q).v)
    /\ (Find(last.before, Split(last.key, Sep)).ok
        /\ IsDict(Find(last.before, Split(last.key, Sep)).v)) =>
         /\ last.ok
         /\ Find(settings, Split(last.key, Sep)).v = last.arg
         /\ \A n \in 1..Len(Keys(settings)) : ~DottedBelow(last.key, Keys(settings)[n])
         /\ \A q \in LeafPaths(settings) : AtOrBelow(Split(last.key, Sep), q) => q = Split(last.key, Sep)

(* set("a.b", 1) on the store {k: "v"}, then set("a", 2): a.b is gone and  *)
(* k is as it was                                                          *)
C27_Witness ==
  /\ last.op = "setitem" /\ last.ok /\ scans = 2
  /\ last.key = <<"a">> /\ last.arg = VInt(2)
  /\ Get(last.before, <<"a", ".", "b">>, NoValue) = VInt(1)
  /\ Get(last.before, <<"k">>, NoValue) = VStr(<<"v">>)
  /\ Get(settings, <<"k">>, NoValue) = VStr(<<"v">>)
  /\ ~Contains(settings, <<"a", ".", "b">>)
  /\ Get(settings, <<"a">>, NoValue) = VInt(2)

=============================================================================
